---- MODULE Spec2Model ----
(***************************************************************************)
(* A model of pr-parser (vdsbenoit/pr-parser): the filename parser, the    *)
(* image extractors (tag syntax and link syntax) and their dispatch, the    *)
(* grouping of image records, the category titles and the table, the PR    *)
(* title parser, and convertClipboard with its external calls.             *)
(*                                                                         *)
(* A JavaScript string is modelled as a sequence of one-character strings, *)
(* so that every regular expression of the source is modelled by what it   *)
(* matches, character by character.                                        *)
(***************************************************************************)
EXTENDS Integers, Sequences, FiniteSets, TLC

VARIABLES
    pc,         \* position of the caller: which call has been made
    filename,   \* argument of parseFilename
    parsed,     \* value returned by parseFilename(filename)
    variants,   \* values returned by parseFilename(filename + suffix), per suffix
    entries,    \* the image declarations the document was written with
    content,    \* the document: argument of parseImages / parseImagesMarkdown
    index,      \* parseImagesMarkdown: index of its outer loop
    images,     \* the images array in push order (document order)
    result,     \* the array returned, after images.sort
    altText,    \* an alt text given in both syntaxes
    srcText,    \* a source given in both syntaxes
    htmlImages, \* parseImagesFromClipboard of the tag-syntax form
    mdImages,   \* parseImagesFromClipboard of the link-syntax form
    records,    \* argument of groupImagesByCategory
    grouped,    \* value returned by groupImagesByCategory(records)
    regrouped,  \* groupImagesByCategory of the records held by `grouped`
    titleShape, \* how the title was typed
    typed,      \* the words the title was typed with
    title,      \* argument of parsePRTitle
    formatted,  \* value returned by parsePRTitle(title)
    snippet,    \* the text that was copied
    clipboard,  \* convertClipboard: what readClipboard returned
    run,        \* convertClipboard: the branch taken and what it came to
    inBundle,   \* Deno.execPath() includes ".app/"
    appFlag,    \* Deno.args includes "--app-mode"
    events,     \* convertClipboard: the calls made so far, in order
    exitCode,   \* the status given to Deno.exit, once it was called
    categoryArg, \* argument of formatCategoryTitle
    categoryTitle, \* value returned by formatCategoryTitle(categoryArg)
    table       \* value returned by generateTable, piece by piece

fnVars    == <<filename, parsed, variants>>
docVars   == <<entries, content, index, images, result>>
agreeVars == <<altText, srcText, htmlImages, mdImages>>
groupVars == <<records, grouped, regrouped>>
titleVars == <<titleShape, typed, title, formatted>>
procVars  == <<inBundle, appFlag, events, exitCode>>
clipVars  == <<snippet, clipboard, run, procVars>>
tableVars == <<categoryArg, categoryTitle, table>>
flowVars  == <<groupVars, titleVars, clipVars, tableVars>>
vars == <<pc, fnVars, docVars, agreeVars, flowVars>>

Null == [null |-> TRUE]

\* the variables of the calls a specification does not make
FnUnused    == filename = Null /\ parsed = Null /\ variants = Null
DocUnused   == /\ entries = Null /\ content = Null /\ index = Null
               /\ images = Null /\ result = Null
AgreeUnused == /\ altText = Null /\ srcText = Null
               /\ htmlImages = Null /\ mdImages = Null
GroupUnused == records = Null /\ grouped = Null /\ regrouped = Null
TitleUnused == /\ titleShape = Null /\ typed = Null
               /\ title = Null /\ formatted = Null
ProcUnused  == /\ inBundle = Null /\ appFlag = Null
               /\ events = Null /\ exitCode = Null
ClipUnused  == snippet = Null /\ clipboard = Null /\ run = Null /\ ProcUnused
TableUnused == categoryArg = Null /\ categoryTitle = Null /\ table = Null
FlowUnused  == GroupUnused /\ TitleUnused /\ ClipUnused /\ TableUnused

(***************************************************************************)
(* Characters and character classes of the regular expressions             *)
(***************************************************************************)
LowerAZ == <<"a","b","c","d","e","f","g","h","i","j","k","l","m",
             "n","o","p","q","r","s","t","u","v","w","x","y","z">>
UpperAZ == <<"A","B","C","D","E","F","G","H","I","J","K","L","M",
             "N","O","P","Q","R","S","T","U","V","W","X","Y","Z">>
DigitChars == <<"0","1","2","3","4","5","6","7","8","9">>

Range(f) == {f[i] : i \in DOMAIN f}

\* \d
DigitClass == Range(DigitChars)
IsDigit(c) == c \in DigitClass

\* \s (the members of the class that the model's inputs use)
SpaceClass == {" ", "\t", "\n"}
IsSpace(c) == c \in SpaceClass

\* String.prototype.toLowerCase / toUpperCase on one ASCII character
ToLower(c) ==
    IF c \in Range(UpperAZ)
    THEN LowerAZ[CHOOSE i \in DOMAIN UpperAZ : UpperAZ[i] = c]
    ELSE c

ToUpper(c) ==
    IF c \in Range(LowerAZ)
    THEN UpperAZ[CHOOSE i \in DOMAIN LowerAZ : LowerAZ[i] = c]
    ELSE c

\* [a-z0-9] under the i flag
AlnumClass == Range(LowerAZ) \cup Range(UpperAZ) \cup DigitClass
IsAlnumI(c) == c \in AlnumClass

DigitVal(c) == (CHOOSE i \in DOMAIN DigitChars : DigitChars[i] = c) - 1

(***************************************************************************)
(* String helpers                                                          *)
(***************************************************************************)
Take(s, n) == SubSeq(s, 1, n)
Drop(s, n) == SubSeq(s, n + 1, Len(s))

\* length of the longest run of characters of `class` that starts at s[from]
\* (a greedy quantifier over a character class)
RunLen(s, from, class) ==
    CHOOSE k \in 0..Len(s) :
        /\ from + k - 1 <= Len(s)
        /\ \A i \in from..(from + k - 1) : s[i] \in class
        /\ (from + k > Len(s) \/ s[from + k] \notin class)

\* every character from s[from] to the end is whitespace (\s*$)
AllSpaceFrom(s, from) == \A i \in from..Len(s) : IsSpace(s[i])

\* String.prototype.trim
Trim(s) ==
    IF AllSpaceFrom(s, 1) THEN <<>>
    ELSE LET first == CHOOSE i \in 1..Len(s) :
                          ~IsSpace(s[i]) /\ \A j \in 1..(i - 1) : IsSpace(s[j])
             last  == CHOOSE i \in 1..Len(s) :
                          ~IsSpace(s[i]) /\ \A j \in (i + 1)..Len(s) : IsSpace(s[j])
         IN  SubSeq(s, first, last)

\* String.prototype.startsWith
StartsWith(s, p) == Len(p) <= Len(s) /\ Take(s, Len(p)) = p

\* parseInt of a run of decimal digits
RECURSIVE ParseInt(_)
ParseInt(ds) ==
    IF ds = <<>> THEN 0
    ELSE ParseInt(Take(ds, Len(ds) - 1)) * 10 + DigitVal(ds[Len(ds)])

RECURSIVE Concat(_)
Concat(ss) == IF ss = <<>> THEN <<>> ELSE Head(ss) \o Concat(Tail(ss))

(***************************************************************************)
(* parseFilename                                                           *)
(***************************************************************************)
\* variant of PrefixMatchLen: the pattern without its optional '.'
PrefixMatchLenNoDot(s) ==
    LET d == RunLen(s, 1, DigitClass)
    IN  IF d = 0 THEN 0 ELSE d + RunLen(s, d + 1, SpaceClass)

\* /^(\d+)\.?\s*/ : length of the match at the start of s, 0 when there is none
PrefixMatchLen(s) ==
    LET d   == RunLen(s, 1, DigitClass)
        dot == IF d + 1 <= Len(s) /\ s[d + 1] = "." THEN 1 ELSE 0
    IN  IF d = 0 THEN 0 ELSE d + dot + RunLen(s, d + dot + 1, SpaceClass)

\* prefixMatch ? parseInt(prefixMatch[1]) : 0
OrderOf(s) ==
    LET d == RunLen(s, 1, DigitClass)
    IN  IF d = 0 THEN 0 ELSE ParseInt(Take(s, d))

\* variant of ReplaceUnderscores: underscores are left in place
KeepUnderscores(s) == s

\* withoutPrefix.replace(/_/g, " ")

ReplaceUnderscores(s) == [i \in 1..Len(s) |-> IF s[i] = "_" THEN " " ELSE s[i]]

BeforeWord == <<"b","e","f","o","r","e">>
AfterWord  == <<"a","f","t","e","r">>

\* variant of TimingMatchAt: the pattern without its i flag on the word
TimingMatchAtCaseSensitive(s, i, word) ==
    /\ IsSpace(s[i])
    /\ LET j == i + RunLen(s, i, SpaceClass)
           p == j + Len(word)
       IN  /\ p - 1 <= Len(s)
           /\ \A k \in 1..Len(word) : s[j + k - 1] = word[k]
           /\ \/ AllSpaceFrom(s, p)
              \/ /\ p <= Len(s)
                 /\ s[p] = "."
                 /\ LET e == RunLen(s, p + 1, AlnumClass)
                    IN  e >= 1 /\ AllSpaceFrom(s, p + 1 + e)

\* variant of TimingMatchAt: the pattern without its end anchor
TimingMatchAtUnanchored(s, i, word) ==
    /\ IsSpace(s[i])
    /\ LET j == i + RunLen(s, i, SpaceClass)
           p == j + Len(word)
       IN  /\ p - 1 <= Len(s)
           /\ \A k \in 1..Len(word) : ToLower(s[j + k - 1]) = word[k]

\* /\s+WORD(?:\.[a-z0-9]+)?\s*$/i matches s starting at index i
TimingMatchAt(s, i, word) ==
    /\ IsSpace(s[i])
    /\ LET j == i + RunLen(s, i, SpaceClass)
           p == j + Len(word)
       IN  /\ p - 1 <= Len(s)
           /\ \A k \in 1..Len(word) : ToLower(s[j + k - 1]) = word[k]
           /\ \/ AllSpaceFrom(s, p)
              \/ /\ p <= Len(s)
                 /\ s[p] = "."
                 /\ LET e == RunLen(s, p + 1, AlnumClass)
                    IN  e >= 1 /\ AllSpaceFrom(s, p + 1 + e)

\* index at which the leftmost match of the timing pattern starts, 0 for null
TimingMatch(s, word) ==
    IF \E i \in 1..Len(s) : TimingMatchAt(s, i, word)
    THEN CHOOSE i \in 1..Len(s) :
             /\ TimingMatchAt(s, i, word)
             /\ \A j \in 1..(i - 1) : ~TimingMatchAt(s, j, word)
    ELSE 0

\* variant of TimingAndContent: the matched suffix is not removed
TimingAndContentKeepWord(normalized) ==
    LET beforeMatch == TimingMatch(normalized, BeforeWord)
        afterMatch  == TimingMatch(normalized, AfterWord)
    IN  IF beforeMatch # 0
        THEN [timing |-> "before", content |-> Trim(normalized)]
        ELSE IF afterMatch # 0
        THEN [timing |-> "after", content |-> Trim(normalized)]
        ELSE [timing |-> "standalone", content |-> Trim(normalized)]

\* timing and content computed from the underscore-normalised string
TimingAndContent(normalized) ==
    LET beforeMatch == TimingMatch(normalized, BeforeWord)
        afterMatch  == TimingMatch(normalized, AfterWord)
    IN  IF beforeMatch # 0
        THEN [timing |-> "before",
              content |-> Trim(Take(normalized, beforeMatch - 1))]
        ELSE IF afterMatch # 0
        THEN [timing |-> "after",
              content |-> Trim(Take(normalized, afterMatch - 1))]
        ELSE [timing |-> "standalone", content |-> Trim(normalized)]

parseFilename(name) ==
    LET order         == OrderOf(name)
        withoutPrefix == Drop(name, PrefixMatchLen(name))
        normalized    == ReplaceUnderscores(withoutPrefix)
        tc            == TimingAndContent(normalized)
    IN  [order |-> order, timing |-> tc.timing, formattedAlt |-> tc.content]

(***************************************************************************)
(* Inputs of parseFilename: concatenations of at most MaxFrags fragments   *)
(***************************************************************************)
MaxFrags == 4

FilenameFrags ==
    { <<"1">>, <<"2">>, <<".">>, <<" ">>, <<"_">>, <<"x">>,
      <<"b","e","f","o","r","e">>, <<"A","f","t","e","R">>,
      <<".","P","n","g">> }

RECURSIVE FragStrings(_, _)
FragStrings(frags, n) ==
    IF n = 0 THEN { <<>> }
    ELSE LET shorter == FragStrings(frags, n - 1)
         IN  shorter \cup { s \o f : s \in shorter, f \in frags }

FilenameInputs == FragStrings(FilenameFrags, MaxFrags)

\* the suffixes a caller appends to a name: "_before", " before", "_after", " after"
Suffix(sep, word) == <<sep>> \o word
SuffixKeys == {"_before", " before", "_after", " after"}
SuffixChars(k) ==
    CASE k = "_before" -> Suffix("_", BeforeWord)
      [] k = " before" -> Suffix(" ", BeforeWord)
      [] k = "_after"  -> Suffix("_", AfterWord)
      [] k = " after"  -> Suffix(" ", AfterWord)

(***************************************************************************)
(* Specification of the filename parser: a caller picks a name and calls   *)
(* parseFilename on it, or on the name with each timing suffix appended.   *)
(***************************************************************************)
InitFilename ==
    /\ pc = "ready"
    /\ filename \in FilenameInputs
    /\ parsed = Null
    /\ variants = Null
    /\ DocUnused
    /\ AgreeUnused
    /\ FlowUnused

CallParseFilename ==
    /\ pc = "ready"
    /\ parsed' = parseFilename(filename)
    /\ pc' = "parsed"
    /\ UNCHANGED <<filename, variants, docVars, agreeVars, flowVars>>

CallParseFilenameWithSuffixes ==
    /\ pc = "ready"
    /\ variants' = [k \in SuffixKeys |-> parseFilename(filename \o SuffixChars(k))]
    /\ pc' = "variants"
    /\ UNCHANGED <<filename, parsed, docVars, agreeVars, flowVars>>

NextFilename == CallParseFilename \/ CallParseFilenameWithSuffixes

SpecFilename == InitFilename /\ [][NextFilename]_vars

(***************************************************************************)
(* Properties of parseFilename                                             *)
(***************************************************************************)
\* number of leading decimal digits of s
LeadingDigits(s) == Cardinality({i \in 1..Len(s) : \A j \in 1..i : IsDigit(s[j])})

\* decimal value of the first d characters of s
RECURSIVE DigitRunValue(_, _)
DigitRunValue(s, d) ==
    IF d = 0 THEN 0 ELSE DigitVal(s[d]) + 10 * DigitRunValue(s, d - 1)

\* p is the length of: the leading digit run of s (length d >= 1), one '.' if it
\* follows, and all the whitespace that follows
IsOrderPrefixEnd(s, d, p) ==
    /\ d >= 1
    /\ \E dot \in {0, 1} :
          /\ dot = 1 <=> (d + 1 <= Len(s) /\ s[d + 1] = ".")
          /\ p >= d + dot
          /\ p <= Len(s)
          /\ \A i \in (d + dot + 1)..p : IsSpace(s[i])
          /\ (p = Len(s) \/ ~IsSpace(s[p + 1]))

\* steps after the order extraction: underscores, timing, trim
NameOfRest(rest) == TimingAndContent(ReplaceUnderscores(rest)).content

\* C1: an input that starts with a run of digits (then an optional '.', then
\* optional whitespace) gets the run's integer value as order and the name is
\* computed from what follows that prefix; an input that does not start with a
\* digit gets order 0 and its name is computed from the whole input.
C1_OrderExtraction ==
    pc = "parsed" =>
        LET d == LeadingDigits(filename)
        IN  IF d = 0
            THEN /\ parsed.order = 0
                 /\ parsed.formattedAlt = NameOfRest(filename)
            ELSE /\ parsed.order = DigitRunValue(filename, d)
                 /\ \E p \in d..Len(filename) :
                       /\ IsOrderPrefixEnd(filename, d, p)
                       /\ parsed.formattedAlt = NameOfRest(Drop(filename, p))

C1_Witness ==
    /\ pc = "parsed"
    /\ filename = <<"1", "2", ".", "x">>
    /\ parsed.order = 12
    /\ parsed.formattedAlt = <<"x">>

\* s is nothing but an order prefix: digits, an optional '.', optional whitespace
IsOrderPrefixOnly(s) ==
    \E d \in 1..Len(s) :
        /\ \A i \in 1..d : IsDigit(s[i])
        /\ \/ AllSpaceFrom(s, d + 1)
           \/ (s[d + 1] = "." /\ AllSpaceFrom(s, d + 2))

SuffixFormsAgree ==
    /\ variants["_before"] = variants[" before"]
    /\ variants["_after"] = variants[" after"]

\* C2 as stated: for every name N, parseFilename(N + "_before") equals
\* parseFilename(N + " before") and parseFilename(N + "_after") equals
\* parseFilename(N + " after").
C2_UnderscoreSuffixAnyName == pc = "variants" => SuffixFormsAgree

\* C2 amended: the underscore form and the space form of a timing suffix parse
\* to the same result for every name N that is not just an order prefix
\* (digits, optional '.', optional whitespace); "x_before" has timing before
\* and name "x".
C2_UnderscoreSuffix ==
    pc = "variants" =>
        /\ ~IsOrderPrefixOnly(filename) => SuffixFormsAgree
        /\ filename = <<"x">> =>
              variants["_before"] =
                  [order |-> 0, timing |-> "before", formattedAlt |-> <<"x">>]

C2_Witness ==
    /\ pc = "variants"
    /\ filename = <<"2", ".", " ", "x">>
    /\ variants["_after"] = [order |-> 2, timing |-> "after", formattedAlt |-> <<"x">>]
    /\ variants[" after"] = variants["_after"]

\* the string parseFilename looks for a timing suffix in
NormalizedOf(name) == ReplaceUnderscores(Drop(name, PrefixMatchLen(name)))

\* s is h characters, then whitespace, then `word` in any letter case, then
\* optionally '.' and an alphanumeric extension, then optional whitespace
EndsWithTimingAfter(s, h, word) ==
    \E j \in (h + 2)..(Len(s) + 1) :
        LET p == j + Len(word)
        IN  /\ \A i \in (h + 1)..(j - 1) : IsSpace(s[i])
            /\ p - 1 <= Len(s)
            /\ \A k \in 1..Len(word) : ToLower(s[j + k - 1]) = word[k]
            /\ \/ \A i \in p..Len(s) : IsSpace(s[i])
               \/ /\ p <= Len(s)
                  /\ s[p] = "."
                  /\ \E q \in (p + 2)..(Len(s) + 1) :
                        /\ \A i \in (p + 1)..(q - 1) : IsAlnumI(s[i])
                        /\ \A i \in q..Len(s) : IsSpace(s[i])

\* C3: whenever the underscore-normalised string ends with whitespace, the word
\* before (resp. after) in any letter case, an optional '.'+alphanumeric
\* extension and optional whitespace, timing is before (resp. after) and the
\* name is the string without that trailing span, trimmed.
C3_TimingSuffix ==
    pc = "parsed" =>
        LET s == NormalizedOf(filename)
        IN  \A h \in 0..Len(s) :
                /\ EndsWithTimingAfter(s, h, BeforeWord) =>
                      /\ parsed.timing = "before"
                      /\ parsed.formattedAlt = Trim(Take(s, h))
                /\ EndsWithTimingAfter(s, h, AfterWord) =>
                      /\ parsed.timing = "after"
                      /\ parsed.formattedAlt = Trim(Take(s, h))

C3_Witness ==
    /\ pc = "parsed"
    /\ filename = <<"x", " ">> \o <<"A","f","t","e","R">> \o <<".","P","n","g">>
    /\ parsed.timing = "after"
    /\ parsed.formattedAlt = <<"x">>

LowerAll(s) == [i \in 1..Len(s) |-> ToLower(s[i])]

\* C4 as stated: a name that consists solely of a timing word ("before",
\* "after") yields an empty name.
C4_BareTimingWordEmptyName ==
    (pc = "parsed" /\ LowerAll(filename) \in {BeforeWord, AfterWord}) =>
        parsed.formattedAlt = <<>>

\* C4 amended: a timing word preceded by nothing but one or more whitespace or
\* underscore characters ("_before", " after") yields an empty name and that
\* timing; the bare word, with nothing in front of it, is not a timing suffix:
\* it is returned as the name, with timing standalone.
C4_SeparatedTimingWordEmptyName ==
    pc = "parsed" =>
        \A word \in {BeforeWord, AfterWord} :
            LET n == Len(filename) - Len(word)
            IN  /\ (/\ n >= 1
                    /\ LowerAll(Drop(filename, n)) = word
                    /\ \A i \in 1..n : IsSpace(filename[i]) \/ filename[i] = "_")
                   => /\ parsed.formattedAlt = <<>>
                      /\ parsed.timing = (IF word = BeforeWord THEN "before" ELSE "after")
                /\ LowerAll(filename) = word
                   => /\ parsed.formattedAlt = filename
                      /\ parsed.timing = "standalone"

C4_Witness ==
    /\ pc = "parsed"
    /\ filename = <<"_", " ">> \o BeforeWord
    /\ parsed.timing = "before"
    /\ parsed.formattedAlt = <<>>

\* the last whitespace-delimited word of s (<<>> when s has none)
LastWord(s) ==
    IF AllSpaceFrom(s, 1) THEN <<>>
    ELSE LET last  == CHOOSE i \in 1..Len(s) :
                          ~IsSpace(s[i]) /\ \A j \in (i + 1)..Len(s) : IsSpace(s[j])
             first == CHOOSE i \in 1..last :
                          /\ \A j \in i..last : ~IsSpace(s[j])
                          /\ (i = 1 \/ IsSpace(s[i - 1]))
         IN  SubSeq(s, first, last)

\* w is `word` in any letter case
IsTimingWord(w) == LowerAll(w) \in {BeforeWord, AfterWord}

\* w is a timing word in any letter case, optionally followed by '.' and an
\* alphanumeric extension
IsTimingWordWithExt(w) ==
    \E word \in {BeforeWord, AfterWord} :
        LET L == Len(word)
        IN  /\ Len(w) >= L
            /\ LowerAll(Take(w, L)) = word
            /\ \/ Len(w) = L
               \/ /\ Len(w) >= L + 2
                  /\ w[L + 1] = "."
                  /\ \A i \in (L + 2)..Len(w) : IsAlnumI(w[i])

NoTimingDetected(s) ==
    /\ parsed.timing = "standalone"
    /\ parsed.formattedAlt = Trim(s)

\* C5 as stated: if the last whitespace/underscore-delimited word of the name is
\* not before or after, timing is standalone and the name is the whole
\* underscore-normalised string, trimmed.
C5_LastWordNotTiming ==
    pc = "parsed" =>
        LET s == NormalizedOf(filename)
        IN  ~IsTimingWord(LastWord(s)) => NoTimingDetected(s)

\* C5 amended: if the last whitespace/underscore-delimited word of the name is
\* neither before nor after, nor one of them followed by '.' and an alphanumeric
\* extension (any letter case), timing is standalone and the name is the whole
\* underscore-normalised string, trimmed, timing word included.
C5_LastWordNotTimingNorExt ==
    pc = "parsed" =>
        LET s == NormalizedOf(filename)
        IN  ~IsTimingWordWithExt(LastWord(s)) => NoTimingDetected(s)

C5_Witness ==
    /\ pc = "parsed"
    /\ filename = <<"_">> \o BeforeWord \o <<"_", "x">>
    /\ parsed.timing = "standalone"
    /\ parsed.formattedAlt = BeforeWord \o <<" ", "x">>

(***************************************************************************)
(* Image records and the final sort                                        *)
(***************************************************************************)
\* the ImageInfo pushed for an alt text and a source (images.push({...}))
ImageRecord(originalAlt, src) ==
    LET p == parseFilename(originalAlt)
    IN  [alt |-> p.formattedAlt, src |-> src, category |-> p.formattedAlt,
         timing |-> p.timing, order |-> p.order]

\* variant of InsertByOrder: an equal order goes in front (an unstable sort)
InsertBeforeEqual(sorted, img) ==
    LET n == Cardinality({i \in 1..Len(sorted) : sorted[i].order < img.order})
    IN  Take(sorted, n) \o <<img>> \o Drop(sorted, n)

\* img inserted into `sorted` behind every element whose order is <= its own
InsertByOrder(sorted, img) ==
    LET n == Cardinality({i \in 1..Len(sorted) : sorted[i].order <= img.order})
    IN  Take(sorted, n) \o <<img>> \o Drop(sorted, n)

\* images.sort((a, b) => a.order - b.order): Array.prototype.sort is stable
RECURSIVE SortByOrder(_)
SortByOrder(imgs) ==
    IF imgs = <<>> THEN <<>>
    ELSE InsertByOrder(SortByOrder(Take(imgs, Len(imgs) - 1)), imgs[Len(imgs)])

(***************************************************************************)
(* parseImages: tag syntax                                                 *)
(***************************************************************************)
\* length of the longest run of characters outside `excl` that starts at s[from]
\* (a greedy quantifier over a negated character class)
RunLenNot(s, from, excl) ==
    CHOOSE k \in 0..Len(s) :
        /\ from + k - 1 <= Len(s)
        /\ \A i \in from..(from + k - 1) : s[i] \notin excl
        /\ (from + k > Len(s) \/ s[from + k] \in excl)

ImgWord == <<"i", "m", "g">>

\* /<img[^>]+>/gi matches s starting at position i (1-based)
ImgTagAt(s, i) ==
    /\ i + 3 <= Len(s)
    /\ s[i] = "<"
    /\ \A k \in 1..3 : ToLower(s[i + k]) = ImgWord[k]
    /\ LET n == RunLenNot(s, i + 4, {">"})
       IN  n >= 1 /\ i + 4 + n <= Len(s)

\* the successive matches of imgRegex.exec(htmlContent), from position `from`
RECURSIVE ImgTags(_, _)
ImgTags(s, from) ==
    IF \E i \in from..Len(s) : ImgTagAt(s, i)
    THEN LET i    == CHOOSE i \in from..Len(s) :
                         ImgTagAt(s, i) /\ \A j \in from..(i - 1) : ~ImgTagAt(s, j)
             last == i + 4 + RunLenNot(s, i + 4, {">"})
         IN  <<SubSeq(s, i, last)>> \o ImgTags(s, last + 1)
    ELSE <<>>

\* /NAME="([^"]+)"/i matches tag starting at position i
AttrAt(tag, name, i) ==
    LET L == Len(name)
    IN  /\ i + L + 1 <= Len(tag)
        /\ \A k \in 1..L : ToLower(tag[i + k - 1]) = name[k]
        /\ tag[i + L] = "="
        /\ tag[i + L + 1] = "\""
        /\ LET n == RunLenNot(tag, i + L + 2, {"\""})
           IN  n >= 1 /\ i + L + 2 + n <= Len(tag)

\* m ? m[1] : "" for m = imgTag.match(/NAME="([^"]+)"/i)
AttrValue(tag, name) ==
    IF \E i \in 1..Len(tag) : AttrAt(tag, name, i)
    THEN LET i == CHOOSE i \in 1..Len(tag) :
                      AttrAt(tag, name, i) /\ \A j \in 1..(i - 1) : ~AttrAt(tag, name, j)
             a == i + Len(name) + 2
         IN  SubSeq(tag, a, a + RunLenNot(tag, a, {"\""}) - 1)
    ELSE <<>>

AltName == <<"a", "l", "t">>
SrcName == <<"s", "r", "c">>

\* body of the while loop of parseImages for one match
PushTag(imgs, imgTag) ==
    LET originalAlt == AttrValue(imgTag, AltName)
        src         == AttrValue(imgTag, SrcName)
    IN  IF originalAlt # <<>> /\ src # <<>>
        THEN Append(imgs, ImageRecord(originalAlt, src))
        ELSE imgs

RECURSIVE PushTags(_, _)
PushTags(imgs, tags) ==
    IF tags = <<>> THEN imgs ELSE PushTags(PushTag(imgs, Head(tags)), Tail(tags))

\* the images array of parseImages before its sort
TagImages(htmlContent) == PushTags(<<>>, ImgTags(htmlContent, 1))

parseImages(htmlContent) == SortByOrder(TagImages(htmlContent))

(***************************************************************************)
(* parseImagesMarkdown: link syntax.  Indices are JavaScript's (from 0).   *)
(***************************************************************************)
Undefined == "undefined"

\* content[i]
Ch(s, i) == IF i >= 0 /\ i < Len(s) THEN s[i + 1] ELSE Undefined

\* content.slice(a, b)
Slice(s, a, b) == SubSeq(s, a + 1, b)

\* content.indexOf("![", from)
IndexOfMarker(s, from) ==
    IF \E i \in from..(Len(s) - 2) : Ch(s, i) = "!" /\ Ch(s, i + 1) = "["
    THEN CHOOSE i \in from..(Len(s) - 2) :
             /\ Ch(s, i) = "!" /\ Ch(s, i + 1) = "["
             /\ \A j \in from..(i - 1) : ~(Ch(s, j) = "!" /\ Ch(s, j + 1) = "[")
    ELSE -1

\* the predicate given to readUntil: an unescaped ']'
IsLabelEnd(s, idx) == Ch(s, idx) = "]" /\ Ch(s, idx - 1) # "\\"

\* readUntil(startIndex, predicate)
readUntil(s, startIndex) ==
    IF \E i \in startIndex..(Len(s) - 1) : IsLabelEnd(s, i)
    THEN LET e == CHOOSE i \in startIndex..(Len(s) - 1) :
                      IsLabelEnd(s, i) /\ \A j \in startIndex..(i - 1) : ~IsLabelEnd(s, j)
         IN  [value |-> Slice(s, startIndex, e), endIndex |-> e]
    ELSE Null

\* variant of ScanParens: the body ends at the first ')'
RECURSIVE ScanToFirstClose(_, _, _)
ScanToFirstClose(s, cursor, depth) ==
    IF cursor < Len(s) /\ depth > 0
    THEN ScanToFirstClose(s, cursor + 1, IF Ch(s, cursor) = ")" THEN 0 ELSE depth)
    ELSE [cursor |-> cursor, depth |-> depth]

\* while (cursor < content.length && depth > 0) { ... }
RECURSIVE ScanParens(_, _, _)
ScanParens(s, cursor, depth) ==
    IF cursor < Len(s) /\ depth > 0
    THEN LET char == Ch(s, cursor)
         IN  ScanParens(s, cursor + 1,
                        IF char = "(" THEN depth + 1
                        ELSE IF char = ")" THEN depth - 1
                        ELSE depth)
    ELSE [cursor |-> cursor, depth |-> depth]

\* inner.indexOf(">")
IndexOfGt(s) ==
    IF \E i \in 0..(Len(s) - 1) : Ch(s, i) = ">"
    THEN CHOOSE i \in 0..(Len(s) - 1) :
             Ch(s, i) = ">" /\ \A j \in 0..(i - 1) : Ch(s, j) # ">"
    ELSE -1

\* src of the trimmed body of the parentheses
SrcOfInner(inner) ==
    IF StartsWith(inner, <<"<">>)
    THEN LET close == IndexOfGt(inner)
         IN  IF close > 1 THEN Trim(Slice(inner, 1, close)) ELSE <<>>
    ELSE Take(inner, RunLenNot(inner, 1, SpaceClass))

\* variant of SkipOccurrence: a malformed occurrence ends the scan
AbortOnMalformed(outcome, start, imgs) ==
    [outcome |-> "noMarker", index |-> start + 2, images |-> imgs]

\* index = start + 2; continue
\* variant of SkipOccurrence: the scan resumes at the marker itself
SkipOccurrenceAtMarker(outcome, start, imgs) ==
    [outcome |-> outcome, index |-> start, images |-> imgs]

SkipOccurrence(outcome, start, imgs) ==
    [outcome |-> outcome, index |-> start + 2, images |-> imgs]

\* the value of a const of the code, computed once where it is declared
TheOnly(S) == CHOOSE v \in S : TRUE

\* the control flow of one pass of the outer while loop: which exit the pass
\* takes and where the scan resumes, with the label and the trimmed body of
\* the parentheses when both were read. Each const of the loop body (start,
\* altRead, cursor, the scan of the parentheses) is bound where the code
\* declares it.
MdScan(s, idx, imgs) ==
    TheOnly({
        IF start = -1
        THEN [outcome |-> "noMarker", index |-> idx, images |-> imgs]
        ELSE TheOnly({
            IF altRead = Null
            THEN [outcome |-> "noLabelEnd", index |-> idx, images |-> imgs]
            ELSE TheOnly({
                IF Ch(s, cursor) # "("
                THEN SkipOccurrence("skipNoParen", start, imgs)
                ELSE TheOnly({
                    IF scan.depth # 0
                    THEN SkipOccurrence("skipUnbalanced", start, imgs)
                    ELSE [outcome     |-> "read",
                          index       |-> scan.cursor,
                          images      |-> imgs,
                          originalAlt |-> altRead.value,
                          inner       |-> Trim(Slice(s, cursor + 1, scan.cursor - 1))]
                    : scan \in {ScanParens(s, cursor + 1, 1)} })
                : cursor \in {altRead.endIndex + 1
                              + RunLen(s, altRead.endIndex + 2, SpaceClass)} })
            : altRead \in {readUntil(s, start + 2)} })
        : start \in {IndexOfMarker(s, idx)} })

\* if (originalAlt && src) { images.push({ ... }) }
PushLink(imgs, originalAlt, src) ==
    IF originalAlt # <<>> /\ src # <<>>
    THEN Append(imgs, ImageRecord(originalAlt, src))
    ELSE imgs

\* one pass of the outer while loop, entered with index < content.length
MdPass(s, idx, imgs) ==
    TheOnly({
        [outcome |-> c.outcome,
         index   |-> c.index,
         images  |-> IF c.outcome = "read"
                     THEN PushLink(imgs, c.originalAlt, SrcOfInner(c.inner))
                     ELSE c.images]
        : c \in {MdScan(s, idx, imgs)} })

\* the images array of parseImagesMarkdown when its loop is left
RECURSIVE MdLoop(_, _, _)
MdLoop(s, idx, imgs) ==
    IF idx < Len(s)
    THEN LET r == MdPass(s, idx, imgs)
         IN  IF r.outcome \in {"noMarker", "noLabelEnd"}
             THEN imgs
             ELSE MdLoop(s, r.index, r.images)
    ELSE imgs

parseImagesMarkdown(markdownContent) == SortByOrder(MdLoop(markdownContent, 0, <<>>))

ImgPrefix == <<"<", "i", "m", "g">>

\* variant of parseImagesFromClipboard: no dispatch on the "<img" prefix
parseImagesFromClipboardLinkOnly(clipboardContent) ==
    parseImagesMarkdown(Trim(clipboardContent))

parseImagesFromClipboard(clipboardContent) ==
    LET trimmed == Trim(clipboardContent)
    IN  IF StartsWith(trimmed, ImgPrefix)
        THEN parseImages(trimmed)
        ELSE parseImagesMarkdown(trimmed)

(***************************************************************************)
(* Documents: at most MaxEntries image declarations, one per line, all in  *)
(* tag syntax or all in link syntax.                                       *)
(***************************************************************************)
MaxEntries == 3

DQ == <<"\"">>
SQ == <<"'">>
NQ == <<>>

Attr(name, quote, value) == [name |-> name, quote |-> quote, value |-> value]

TagEntry(name, attrs, close) ==
    [syntax |-> "tag", name |-> name, attrs |-> attrs, close |-> close]

LinkEntry(shape, label, target) ==
    [syntax |-> "link", shape |-> shape, label |-> label, target |-> target]

DataSrcName == <<"d", "a", "t", "a", "-", "s", "r", "c">>

TagEntries ==
    { \* <img alt="2 a" src="u">
      TagEntry(ImgWord, <<Attr(AltName, DQ, <<"2", " ", "a">>),
                          Attr(SrcName, DQ, <<"u">>)>>, <<">">>),
      \* <img alt="1 b_before" src="v" />
      TagEntry(ImgWord, <<Attr(AltName, DQ, <<"1", " ", "b", "_">> \o BeforeWord),
                          Attr(SrcName, DQ, <<"v">>)>>, <<" ", "/", ">">>),
      \* <IMG SRC="w" ALT="c">
      TagEntry(<<"I", "M", "G">>, <<Attr(<<"S", "R", "C">>, DQ, <<"w">>),
                                    Attr(<<"A", "L", "T">>, DQ, <<"c">>)>>, <<">">>),
      \* <img alt="1 d" src="x">
      TagEntry(ImgWord, <<Attr(AltName, DQ, <<"1", " ", "d">>),
                          Attr(SrcName, DQ, <<"x">>)>>, <<">">>),
      \* <img alt="" src="u">
      TagEntry(ImgWord, <<Attr(AltName, DQ, <<>>), Attr(SrcName, DQ, <<"u">>)>>, <<">">>),
      \* <img alt='a' src="u">
      TagEntry(ImgWord, <<Attr(AltName, SQ, <<"a">>), Attr(SrcName, DQ, <<"u">>)>>, <<">">>),
      \* <img src="u">
      TagEntry(ImgWord, <<Attr(SrcName, DQ, <<"u">>)>>, <<">">>),
      \* <img alt="a" src=u>
      TagEntry(ImgWord, <<Attr(AltName, DQ, <<"a">>), Attr(SrcName, NQ, <<"u">>)>>, <<">">>),
      \* <img alt="a">
      TagEntry(ImgWord, <<Attr(AltName, DQ, <<"a">>)>>, <<">">>),
      \* <img alt="a" data-src="y">
      TagEntry(ImgWord, <<Attr(AltName, DQ, <<"a">>),
                          Attr(DataSrcName, DQ, <<"y">>)>>, <<">">>) }

LinkEntries ==
    { \* ![2 a](u)
      LinkEntry("plain", <<"2", " ", "a">>, <<"u">>),
      \* ![b_after](v(w).p)
      LinkEntry("plain", <<"b", "_">> \o AfterWord, <<"v", "(", "w", ")", ".", "p">>),
      \* ![1 c] (x(y(z)) "t")
      LinkEntry("title", <<"1", " ", "c">>, <<"x", "(", "y", "(", "z", ")", ")">>),
      \* ![1 d](<p q>)
      LinkEntry("angle", <<"1", " ", "d">>, <<"p", " ", "q">>),
      \* ![e]z
      LinkEntry("noparen", <<"e">>, <<>>),
      \* ![](u)
      LinkEntry("plain", <<>>, <<"u">>),
      \* ![f]()
      LinkEntry("plain", <<"f">>, <<>>),
      \* ![g](k(
      LinkEntry("open", <<"g">>, <<"k", "(">>),
      \* ![h
      LinkEntry("cut", <<"h">>, <<>>) }

RenderAttr(a) == <<" ">> \o a.name \o <<"=">> \o a.quote \o a.value \o a.quote

RenderEntry(e) ==
    IF e.syntax = "tag"
    THEN <<"<">> \o e.name
             \o Concat([i \in 1..Len(e.attrs) |-> RenderAttr(e.attrs[i])]) \o e.close
    ELSE <<"!", "[">> \o e.label \o
         CASE e.shape = "plain"   -> <<"]", "(">> \o e.target \o <<")">>
           [] e.shape = "title"   -> <<"]", " ", "(">> \o e.target
                                         \o <<" ", "\"", "t", "\"", ")">>
           [] e.shape = "angle"   -> <<"]", "(", "<">> \o e.target \o <<">", ")">>
           [] e.shape = "noparen" -> <<"]", "z">>
           [] e.shape = "open"    -> <<"]", "(">> \o e.target
           [] e.shape = "cut"     -> <<>>

\* the document: one declaration per line
Render(es) ==
    Concat([i \in 1..Len(es) |->
               IF i = 1 THEN RenderEntry(es[i]) ELSE <<"\n">> \o RenderEntry(es[i])])

RECURSIVE SeqsUpTo(_, _)
SeqsUpTo(S, n) ==
    IF n = 0 THEN { <<>> }
    ELSE LET shorter == SeqsUpTo(S, n - 1)
         IN  shorter \cup { Append(es, e) : es \in shorter, e \in S }

Documents == SeqsUpTo(TagEntries, MaxEntries) \cup SeqsUpTo(LinkEntries, MaxEntries)

(***************************************************************************)
(* Specification of the image extractors: a caller picks a document and    *)
(* calls parseImages or parseImagesMarkdown on it.  parseImagesMarkdown    *)
(* takes one step per pass of its outer loop.                              *)
(***************************************************************************)
InitImages ==
    /\ pc = "ready"
    /\ entries \in Documents
    /\ content = Render(entries)
    /\ index = 0       \* let index = 0
    /\ images = <<>>   \* const images = []
    /\ result = <<>>   \* nothing is returned before pc says so
    /\ FnUnused
    /\ AgreeUnused
    /\ FlowUnused

CallParseImages ==
    /\ pc = "ready"
    /\ images' = TagImages(content)
    /\ result' = parseImages(content)
    /\ pc' = "tagDone"
    /\ UNCHANGED <<entries, content, index, fnVars, agreeVars, flowVars>>

CallParseImagesMarkdown ==
    /\ pc = "ready"
    /\ index' = 0
    /\ images' = <<>>
    /\ pc' = "md"
    /\ UNCHANGED <<entries, content, result, fnVars, agreeVars, flowVars>>

\* images.sort(...); return images
MdReturn ==
    /\ result' = SortByOrder(images)
    /\ pc' = "mdDone"
    /\ UNCHANGED <<entries, content, index, images, fnVars, agreeVars, flowVars>>

\* while (index < content.length) is false
MdLoopEnd ==
    /\ pc = "md"
    /\ ~(index < Len(content))
    /\ MdReturn

\* if (start === -1) break
MdBreakNoMarker ==
    /\ pc = "md"
    /\ index < Len(content)
    /\ MdPass(content, index, images).outcome = "noMarker"
    /\ MdReturn

\* if (!altRead) break
MdBreakNoLabelEnd ==
    /\ pc = "md"
    /\ index < Len(content)
    /\ MdPass(content, index, images).outcome = "noLabelEnd"
    /\ MdReturn

\* if (content[cursor] !== "(") { index = start + 2; continue; }
MdSkipNoParen ==
    /\ pc = "md"
    /\ index < Len(content)
    /\ LET r == MdPass(content, index, images)
       IN  /\ r.outcome = "skipNoParen"
           /\ index' = r.index
           /\ images' = r.images
    /\ UNCHANGED <<pc, entries, content, result, fnVars, agreeVars, flowVars>>

\* if (depth !== 0) { index = start + 2; continue; }
MdSkipUnbalanced ==
    /\ pc = "md"
    /\ index < Len(content)
    /\ LET r == MdPass(content, index, images)
       IN  /\ r.outcome = "skipUnbalanced"
           /\ index' = r.index
           /\ images' = r.images
    /\ UNCHANGED <<pc, entries, content, result, fnVars, agreeVars, flowVars>>

\* the body was read: push when label and src are non-empty; index = cursor
MdRead ==
    /\ pc = "md"
    /\ index < Len(content)
    /\ LET r == MdPass(content, index, images)
       IN  /\ r.outcome = "read"
           /\ index' = r.index
           /\ images' = r.images
    /\ UNCHANGED <<pc, entries, content, result, fnVars, agreeVars, flowVars>>

NextImages ==
    \/ CallParseImages
    \/ CallParseImagesMarkdown
    \/ MdLoopEnd
    \/ MdBreakNoMarker
    \/ MdBreakNoLabelEnd
    \/ MdSkipNoParen
    \/ MdSkipUnbalanced
    \/ MdRead

SpecImages == InitImages /\ [][NextImages]_vars

\* what a step of the outer loop of parseImagesMarkdown does to its control
\* state: the exit test, a break, or a pass that moves the index
MdAdvance ==
    /\ pc = "md"
    /\ IF index < Len(content)
       THEN \E c \in {MdScan(content, index, images)} :
                /\ pc' = IF c.outcome \in {"noMarker", "noLabelEnd"}
                         THEN "mdDone" ELSE "md"
                /\ index' = c.index
       ELSE pc' = "mdDone" /\ index' = index

mdVars == <<pc, index>>

\* the loop runs to its end: the call is synchronous, so a pass that can be
\* made is made
SpecImagesRun == InitImages /\ [][NextImages]_vars /\ WF_mdVars(MdAdvance)

(***************************************************************************)
(* Specification of the syntax comparison: a caller gives the same alt     *)
(* text and source to parseImagesFromClipboard in tag syntax and in link   *)
(* syntax.                                                                 *)
(***************************************************************************)
MaxAltFrags == 3

AltFrags ==
    { <<"1">>, <<".">>, <<" ">>, <<"_">>, <<"x">>,
      <<"b","e","f","o","r","e">>, <<"A","f","t","e","R">> }

\* non-empty alt texts without '"', '>', '[', ']', '(', ')', '\', '=' or '!'
AltInputs == FragStrings(AltFrags, MaxAltFrags) \ { <<>> }

\* sources without whitespace, '"', '<', '>', '(', ')'
SrcInputs == { <<"u">>, <<"v", ".", "p">>, <<"h", ":", "/", "1", "_", "2">> }

\* <img alt="A" src="U" />
TagSyntax(A, U) ==
    <<"<", "i", "m", "g", " ", "a", "l", "t", "=", "\"">> \o A
        \o <<"\"", " ", "s", "r", "c", "=", "\"">> \o U \o <<"\"", " ", "/", ">">>

\* ![A](U)
LinkSyntax(A, U) == <<"!", "[">> \o A \o <<"]", "(">> \o U \o <<")">>

InitAgree ==
    /\ pc = "ready"
    /\ altText \in AltInputs
    /\ srcText \in SrcInputs
    /\ htmlImages = Null
    /\ mdImages = Null
    /\ FnUnused
    /\ DocUnused
    /\ FlowUnused

CallBothSyntaxes ==
    /\ pc = "ready"
    /\ htmlImages' = parseImagesFromClipboard(TagSyntax(altText, srcText))
    /\ mdImages' = parseImagesFromClipboard(LinkSyntax(altText, srcText))
    /\ pc' = "compared"
    /\ UNCHANGED <<altText, srcText, fnVars, docVars, flowVars>>

NextAgree == CallBothSyntaxes

SpecAgree == InitAgree /\ [][NextAgree]_vars

(***************************************************************************)
(* Properties of the image extractors                                      *)
(***************************************************************************)
OrdersOf(imgs) == {imgs[i].order : i \in 1..Len(imgs)}

WithOrder(imgs, k) ==
    LET HasOrder(img) == img.order = k
    IN  SelectSeq(imgs, HasOrder)

IsAscending(imgs) ==
    \A i \in 1..Len(imgs) : \A j \in (i + 1)..Len(imgs) : imgs[i].order <= imgs[j].order

\* C6: both extractors return their records sorted by ascending order, and the
\* sort is stable: the records of any one order are returned in the sequence
\* in which they were found in the document.
C6_StableSort ==
    pc \in {"tagDone", "mdDone"} =>
        /\ Len(result) = Len(images)
        /\ IsAscending(result)
        /\ \A k \in OrdersOf(images) \cup OrdersOf(result) :
              WithOrder(result, k) = WithOrder(images, k)

C6_Witness ==
    /\ pc = "mdDone"
    /\ Len(images) = 3
    /\ <<images[1].order, images[2].order, images[3].order>> = <<2, 1, 1>>
    /\ images[2] # images[3]
    /\ result = <<images[2], images[3], images[1]>>

\* C7: for a non-empty alt text A and a source U without characters significant
\* to either syntax, parseImagesFromClipboard of <img alt="A" src="U" /> and of
\* ![A](U) return equal one-element lists.
C7_SyntaxesAgree ==
    pc = "compared" =>
        /\ htmlImages = mdImages
        /\ Len(htmlImages) = 1
        /\ htmlImages[1].src = srcText

C7_Witness ==
    /\ pc = "compared"
    /\ altText = <<"x", "_">> \o BeforeWord
    /\ mdImages = <<[alt |-> <<"x">>, src |-> srcText, category |-> <<"x">>,
                     timing |-> "before", order |-> 0]>>
    /\ htmlImages = mdImages

IsTagDoc  == \A i \in 1..Len(entries) : entries[i].syntax = "tag"
IsLinkDoc == \A i \in 1..Len(entries) : entries[i].syntax = "link"

\* the tag carries an attribute `name`, double-quoted, with a non-empty value
Carries(e, name) ==
    \E i \in 1..Len(e.attrs) :
        /\ LowerAll(e.attrs[i].name) = name
        /\ e.attrs[i].quote = DQ
        /\ e.attrs[i].value # <<>>

CarriedValue(e, name) ==
    LET i == CHOOSE i \in 1..Len(e.attrs) :
                 /\ LowerAll(e.attrs[i].name) = name
                 /\ e.attrs[i].quote = DQ
                 /\ e.attrs[i].value # <<>>
    IN  e.attrs[i].value

\* the records of the tags that carry both attributes, in document order
RECURSIVE RecordsOfTags(_)
RecordsOfTags(es) ==
    IF es = <<>> THEN <<>>
    ELSE LET e == Head(es)
         IN  (IF Carries(e, AltName) /\ Carries(e, SrcName)
              THEN <<ImageRecord(CarriedValue(e, AltName), CarriedValue(e, SrcName))>>
              ELSE <<>>) \o RecordsOfTags(Tail(es))

\* C8: an img tag produces a record only if it carries both an alt and a src
\* attribute, each double-quoted with a non-empty value; any other tag produces
\* no record and does not stop the other tags from producing theirs.
C8_TagNeedsAltAndSrc ==
    (pc = "tagDone" /\ IsTagDoc) => images = RecordsOfTags(entries)

\* the tags whose attribute names are exactly alt and src behave as C8 says
C8_HoldsWithoutDataSrc ==
    (/\ pc = "tagDone"
     /\ IsTagDoc
     /\ \A i \in 1..Len(entries) : \A j \in 1..Len(entries[i].attrs) :
            LowerAll(entries[i].attrs[j].name) \in {AltName, SrcName})
    => images = RecordsOfTags(entries)

\* every '(' of t is closed by a later ')' of t, and every ')' closes one
RECURSIVE ParenDepths(_, _)
ParenDepths(t, depth) ==
    IF t = <<>> THEN <<depth>>
    ELSE <<depth>> \o ParenDepths(Tail(t), IF Head(t) = "(" THEN depth + 1
                                           ELSE IF Head(t) = ")" THEN depth - 1
                                           ELSE depth)

IsBalanced(t) ==
    LET ds == ParenDepths(t, 0)
    IN  ds[Len(ds)] = 0 /\ \A i \in 1..Len(ds) : ds[i] >= 0

HasParens(t) == \E i \in 1..Len(t) : t[i] = "("

\* ![label](target), with a non-empty label and a non-empty balanced target
IsWellFormed(e) ==
    /\ e.shape \in {"plain", "title", "angle"}
    /\ e.label # <<>>
    /\ e.target # <<>>
    /\ IsBalanced(e.target)

\* C9: when every declaration of the document is well formed, with balanced
\* parentheses in its target, the src of the k-th record is the full k-th
\* target, parenthesised segments included, and the scanner resumes just past
\* the ')' that closes the k-th body, never at an inner ')'.
C9_BalancedTarget ==
    (/\ pc \in {"md", "mdDone"}
     /\ IsLinkDoc
     /\ \A i \in 1..Len(entries) : IsWellFormed(entries[i]))
    => /\ Len(images) <= Len(entries)
       /\ \A k \in 1..Len(images) : images[k].src = entries[k].target
       /\ index = Len(Render(Take(entries, Len(images))))
       /\ pc = "mdDone" => Len(images) = Len(entries)

C9_Witness ==
    /\ pc = "mdDone"
    /\ IsLinkDoc
    /\ Len(entries) = 2
    /\ Len(images) = 2
    /\ HasParens(entries[1].target) /\ entries[1].shape = "plain"
    /\ HasParens(entries[2].target) /\ entries[2].shape = "title"
    /\ images[1].src = entries[1].target
    /\ images[2].src = entries[2].target

\* the records of the well-formed declarations, in document order
RECURSIVE RecordsOfLinks(_)
RecordsOfLinks(es) ==
    IF es = <<>> THEN <<>>
    ELSE LET e == Head(es)
         IN  (IF IsWellFormed(e) THEN <<ImageRecord(e.label, e.target)>> ELSE <<>>)
                 \o RecordsOfLinks(Tail(es))

\* a `![` whose label is not followed by '(', an empty label or target, or
\* parentheses left open in the target
IsMalformed(e) ==
    \/ e.shape \in {"noparen", "open"}
    \/ e.shape = "plain" /\ (e.label = <<>> \/ e.target = <<>>)

\* C10: malformed link syntax is skipped per entry and never ends the scan:
\* whatever malformed declarations the document holds, every well-formed
\* declaration, before or after them, is extracted.
C10_MalformedSkipped ==
    (/\ pc = "mdDone"
     /\ IsLinkDoc
     /\ \A i \in 1..Len(entries) : IsWellFormed(entries[i]) \/ IsMalformed(entries[i]))
    => images = RecordsOfLinks(entries)

C10_Witness ==
    /\ pc = "mdDone"
    /\ IsLinkDoc
    /\ Len(entries) = 3
    /\ entries[1].shape = "open"
    /\ entries[2].shape = "noparen"
    /\ IsWellFormed(entries[3])
    /\ images = <<ImageRecord(entries[3].label, entries[3].target)>>

\* a pass that stays in the loop resumes past where it started: two
\* characters past the marker when the occurrence is skipped, just past the
\* ')' that closes the body when a body was read
PassAdvances ==
    (pc = "md" /\ pc' = "md") =>
        /\ index' > index
        /\ index' > IndexOfMarker(content, index)
        /\ \/ /\ index' = IndexOfMarker(content, index) + 2
              /\ images' = images
           \/ /\ Ch(content, index' - 1) = ")"
              /\ Len(images') <= Len(images) + 1

\* a step of the scanner that changes its control state is a step of its loop
StepIsAdvance == (pc = "md") => MdAdvance

\* C29: parseImagesMarkdown terminates on every input, each pass of its outer
\* loop either leaving the loop or resuming at a strictly greater index, past
\* the marker it started from.
C29_ScannerTerminates ==
    /\ [][StepIsAdvance]_mdVars
    /\ [][PassAdvances]_mdVars
    /\ (pc = "md") ~> (pc = "mdDone")

\* in the middle of a scan: one occurrence was skipped, one body was read,
\* and more of the document is left
C29_Witness ==
    /\ pc = "md"
    /\ IsLinkDoc
    /\ Len(entries) = 3
    /\ entries[1].shape = "noparen"
    /\ IsWellFormed(entries[2])
    /\ Len(images) = 1
    /\ 0 < index /\ index < Len(content)
    /\ Ch(content, index - 1) = ")"

(***************************************************************************)
(* groupImagesByCategory                                                   *)
(*                                                                         *)
(* A Map is modelled by its keys in insertion order and the value of each  *)
(* key; a group is { before?, after?, order }, a missing property being    *)
(* UndefinedSlot.                                                          *)
(***************************************************************************)
UndefinedSlot == [undefined |-> TRUE]

\* new Map()
EmptyMap == [keys |-> <<>>, get |-> <<>>]

\* Map.prototype.has / get / set
MapHas(map, key) == \E i \in 1..Len(map.keys) : map.keys[i] = key

MapGet(map, key) ==
    map.get[CHOOSE i \in 1..Len(map.keys) : map.keys[i] = key]

\* variant of MapSet: a new key goes in front of the others
MapSetFront(map, key, value) ==
    IF MapHas(map, key)
    THEN LET i == CHOOSE i \in 1..Len(map.keys) : map.keys[i] = key
         IN  [map EXCEPT !.get[i] = value]
    ELSE [keys |-> <<key>> \o map.keys, get |-> <<value>> \o map.get]

MapSet(map, key, value) ==
    IF MapHas(map, key)
    THEN LET i == CHOOSE i \in 1..Len(map.keys) : map.keys[i] = key
         IN  [map EXCEPT !.get[i] = value]
    ELSE [keys |-> Append(map.keys, key), get |-> Append(map.get, value)]

\* variant of Push: the element goes to the front
PushFront(array, image) == <<image>> \o array

\* standaloneImages.push(image)
Push(array, image) == Append(array, image)

\* variant of MathMin: the group keeps the order it was created with
MathMinKeepFirst(a, b) == a

\* Math.min on two integers
MathMin(a, b) == IF b < a THEN b ELSE a

\* variant of AssignSlot: a slot that is taken is not written again
AssignSlotOnce(group, image) ==
    IF image.timing = "before"
    THEN (IF group.before = UndefinedSlot THEN [group EXCEPT !.before = image]
          ELSE group)
    ELSE (IF group.after = UndefinedSlot THEN [group EXCEPT !.after = image]
          ELSE group)

\* group[image.timing] = image, image.timing being "before" or "after"
AssignSlot(group, image) ==
    IF image.timing = "before"
    THEN [group EXCEPT !.before = image]
    ELSE [group EXCEPT !.after = image]

\* { order: image.order }
NewGroup(image) ==
    [before |-> UndefinedSlot, after |-> UndefinedSlot, order |-> image.order]

\* body of the for loop of groupImagesByCategory
GroupStep(acc, image) ==
    IF image.timing = "standalone"
    THEN [acc EXCEPT !.standaloneImages = Push(@, image)]
    ELSE LET created  == IF ~MapHas(acc.pairedGroups, image.category)
                         THEN MapSet(acc.pairedGroups, image.category,
                                     NewGroup(image))
                         ELSE acc.pairedGroups
             group    == MapGet(created, image.category)
             assigned == AssignSlot(group, image)
             updated  == [assigned EXCEPT
                              !.order = MathMin(assigned.order, image.order)]
         IN  [acc EXCEPT
                  !.pairedGroups = MapSet(created, image.category, updated)]

RECURSIVE GroupLoop(_, _)
GroupLoop(acc, imgs) ==
    IF imgs = <<>> THEN acc
    ELSE GroupLoop(GroupStep(acc, Head(imgs)), Tail(imgs))

groupImagesByCategory(imgs) ==
    GroupLoop([standaloneImages |-> <<>>, pairedGroups |-> EmptyMap], imgs)

(***************************************************************************)
(* formatCategoryTitle and generateTable.  The string generateTable        *)
(* returns is kept as the sequence of the pieces it is concatenated from:  *)
(* the literal text of the templates and the values they interpolate.      *)
(***************************************************************************)
\* variant of SplitUnderscore: a space separates segments too
RECURSIVE SplitUnderscoreOrSpace(_)
SplitUnderscoreOrSpace(category) ==
    IF \E i \in 1..Len(category) : category[i] \in {"_", " "}
    THEN LET i == CHOOSE i \in 1..Len(category) :
                      /\ category[i] \in {"_", " "}
                      /\ \A j \in 1..(i - 1) : category[j] \notin {"_", " "}
         IN  <<Take(category, i - 1)>> \o SplitUnderscoreOrSpace(Drop(category, i))
    ELSE <<category>>

\* category.split("_")
RECURSIVE SplitUnderscore(_)
SplitUnderscore(category) ==
    IF \E i \in 1..Len(category) : category[i] = "_"
    THEN LET i == CHOOSE i \in 1..Len(category) :
                      category[i] = "_" /\ \A j \in 1..(i - 1) : category[j] # "_"
         IN  <<Take(category, i - 1)>> \o SplitUnderscore(Drop(category, i))
    ELSE <<category>>

\* word.charAt(0).toUpperCase() + word.slice(1)
CapitalizeWord(word) ==
    IF word = <<>> THEN <<>> ELSE <<ToUpper(word[1])>> \o Tail(word)

\* .join(" ")
RECURSIVE JoinSegments(_)
JoinSegments(segments) ==
    IF segments = <<>> THEN <<>>
    ELSE IF Len(segments) = 1 THEN segments[1]
    ELSE segments[1] \o <<" ">> \o JoinSegments(Tail(segments))

formatCategoryTitle(category) ==
    JoinSegments([i \in 1..Len(SplitUnderscore(category)) |->
                      CapitalizeWord(SplitUnderscore(category)[i])])

\* a piece of the returned string: literal text, or an interpolated value
Lit(text) == [lit |-> text]
Val(s)    == [val |-> s]

TableOpen  == <<Lit("<details><summary>Click to expand...</summary>\n<table>\n")>>
TableClose == <<Lit("</table></details>")>>
RowOpen    == <<Lit("  <tr>\n")>>
RowClose   == <<Lit("  </tr>\n")>>

\* `    <th>${title}</th>\n`
HeaderCell(titleText) == <<Lit("    <th>"), Val(titleText), Lit("</th>\n")>>
EmptyHeaderCell == <<Lit("    <th></th>\n")>>

\* `    <th colspan="2">${categoryTitle}</th>\n`
GroupHeaderCell(titleText) ==
    <<Lit("    <th colspan=\"2\">"), Val(titleText), Lit("</th>\n")>>

BeforeHeaderCell == <<Lit("    <th>Before</th>\n")>>
AfterHeaderCell  == <<Lit("    <th>After</th>\n")>>

\* `    <td><img src="${image.src}" alt="${image.alt}" width="400"></td>\n`
ImageCell(image) ==
    <<Lit("    <td><img src=\""), Val(image.src), Lit("\" alt=\""),
      Val(image.alt), Lit("\" width=\"400\"></td>\n")>>
EmptyCell == <<Lit("    <td></td>\n")>>

\* for (let i = 0; i < standaloneImages.length; i += 2) { ... }
RECURSIVE StandaloneRows(_, _)
StandaloneRows(standaloneImages, i) ==
    IF i < Len(standaloneImages)
    THEN RowOpen
         \o HeaderCell(formatCategoryTitle(standaloneImages[i + 1].category))
         \o (IF i + 1 < Len(standaloneImages)
             THEN HeaderCell(formatCategoryTitle(standaloneImages[i + 2].category))
             ELSE EmptyHeaderCell)
         \o RowClose
         \o RowOpen
         \o ImageCell(standaloneImages[i + 1])
         \o (IF i + 1 < Len(standaloneImages)
             THEN ImageCell(standaloneImages[i + 2])
             ELSE EmptyCell)
         \o RowClose
         \o StandaloneRows(standaloneImages, i + 2)
    ELSE <<>>

\* Array.from(pairedGroups.entries())
MapEntries(map) == [i \in 1..Len(map.keys) |-> <<map.keys[i], map.get[i]>>]

InsertEntryByOrder(sorted, entry) ==
    LET n == Cardinality({i \in 1..Len(sorted) : sorted[i][2].order <= entry[2].order})
    IN  Take(sorted, n) \o <<entry>> \o Drop(sorted, n)

\* variant of SortEntries: the entries stay in the iteration order of the Map
KeepEntryOrder(groupEntries) == groupEntries

\* .sort(([, a], [, b]) => a.order - b.order): Array.prototype.sort is stable
RECURSIVE SortEntries(_)
SortEntries(groupEntries) ==
    IF groupEntries = <<>> THEN <<>>
    ELSE InsertEntryByOrder(SortEntries(Take(groupEntries, Len(groupEntries) - 1)),
                            groupEntries[Len(groupEntries)])

\* the three rows of one paired group
GroupRows(groupCategory, group) ==
    RowOpen \o GroupHeaderCell(formatCategoryTitle(groupCategory)) \o RowClose
    \o RowOpen \o BeforeHeaderCell \o AfterHeaderCell \o RowClose
    \o RowOpen
    \o (IF group.before # UndefinedSlot THEN ImageCell(group.before) ELSE EmptyCell)
    \o (IF group.after # UndefinedSlot THEN ImageCell(group.after) ELSE EmptyCell)
    \o RowClose

\* for (const [category, group] of sortedPairedGroups) { ... }
RECURSIVE PairedRows(_)
PairedRows(sortedPairedGroups) ==
    IF sortedPairedGroups = <<>> THEN <<>>
    ELSE GroupRows(sortedPairedGroups[1][1], sortedPairedGroups[1][2])
         \o PairedRows(Tail(sortedPairedGroups))

generateTable(standaloneImages, pairedGroups) ==
    TableOpen
    \o StandaloneRows(standaloneImages, 0)
    \o PairedRows(SortEntries(MapEntries(pairedGroups)))
    \o TableClose

(***************************************************************************)
(* Record sequences given to groupImagesByCategory, and the calls          *)
(***************************************************************************)
MaxRecords == 3

Categories == { <<"a">>, <<"b">> }
Timings    == { "before", "after", "standalone" }
Orders     == 0..2

\* an ImageInfo: alt and category are the same formatted name
RecordInputs ==
    { [alt |-> c, src |-> <<"u">>, category |-> c, timing |-> t, order |-> o] :
          c \in Categories, t \in Timings, o \in Orders }

\* the records a group holds in its slots, before first
SlotRecords(group) ==
    (IF group.before = UndefinedSlot THEN <<>> ELSE <<group.before>>)
        \o (IF group.after = UndefinedSlot THEN <<>> ELSE <<group.after>>)

\* the standalone records followed by the records of the groups, in the
\* iteration order of the Map
Flatten(g) ==
    g.standaloneImages
        \o Concat([i \in 1..Len(g.pairedGroups.keys) |->
                       SlotRecords(g.pairedGroups.get[i])])

InitGroup ==
    /\ pc = "ready"
    /\ records \in SeqsUpTo(RecordInputs, MaxRecords)
    /\ grouped = Null
    /\ regrouped = Null
    /\ table = Null
    /\ categoryArg = Null
    /\ categoryTitle = Null
    /\ FnUnused
    /\ DocUnused
    /\ AgreeUnused
    /\ TitleUnused
    /\ ClipUnused

CallGroupImagesByCategory ==
    /\ pc = "ready"
    /\ grouped' = groupImagesByCategory(records)
    /\ pc' = "grouped"
    /\ UNCHANGED <<records, regrouped, fnVars, docVars, agreeVars,
                   titleVars, clipVars, tableVars>>

CallGroupImagesByCategoryAgain ==
    /\ pc = "grouped"
    /\ regrouped' = groupImagesByCategory(Flatten(grouped))
    /\ pc' = "regrouped"
    /\ UNCHANGED <<records, grouped, fnVars, docVars, agreeVars,
                   titleVars, clipVars, tableVars>>

\* generateTable(standaloneImages, pairedGroups) on what the grouping returned
CallGenerateTable ==
    /\ pc = "grouped"
    /\ table' = generateTable(grouped.standaloneImages, grouped.pairedGroups)
    /\ pc' = "rendered"
    /\ UNCHANGED <<categoryArg, categoryTitle, groupVars, fnVars, docVars,
                   agreeVars, titleVars, clipVars>>

NextGroup ==
    \/ CallGroupImagesByCategory
    \/ CallGroupImagesByCategoryAgain
    \/ CallGenerateTable

SpecGroup == InitGroup /\ [][NextGroup]_vars

(***************************************************************************)
(* Properties of groupImagesByCategory                                     *)
(***************************************************************************)
\* indices of the before/after records of a category in the input
Contributors(category) ==
    { i \in 1..Len(records) :
          records[i].category = category /\ records[i].timing # "standalone" }

SlotContributors(category, timing) ==
    { i \in 1..Len(records) :
          records[i].category = category /\ records[i].timing = timing }

MinOf(S) == CHOOSE m \in S : \A n \in S : m <= n
MaxOf(S) == CHOOSE m \in S : \A n \in S : n <= m

KeySet(map) == Range(map.keys)

\* C12: each group's order is the minimum order over all before/after records
\* of its category in the input, overwritten ones included; there is a group
\* exactly for the categories that have such a record.
C12_GroupOrderIsMin ==
    pc = "grouped" =>
        /\ KeySet(grouped.pairedGroups)
               = { c \in Categories : Contributors(c) # {} }
        /\ \A c \in KeySet(grouped.pairedGroups) :
               MapGet(grouped.pairedGroups, c).order
                   = MinOf({ records[i].order : i \in Contributors(c) })

\* the minimum comes from a record that was overwritten in its slot
C12_Witness ==
    /\ pc = "grouped"
    /\ Len(records) = 3
    /\ \E c \in KeySet(grouped.pairedGroups) :
           LET g == MapGet(grouped.pairedGroups, c)
           IN  /\ g.before # UndefinedSlot /\ g.after # UndefinedSlot
               /\ g.order < g.before.order
               /\ g.order < g.after.order

\* the record a slot must hold: the last one of the input with that category
\* and timing, or nothing
LastOf(category, timing) ==
    IF SlotContributors(category, timing) = {} THEN UndefinedSlot
    ELSE records[MaxOf(SlotContributors(category, timing))]

\* C13: when several records share a category and a timing, the slot holds the
\* last of them, whole (nothing merged), and the other slot of the group holds
\* the last record of its own timing, untouched by the overwriting.
C13_LastWriteWins ==
    pc = "grouped" =>
        \A c \in KeySet(grouped.pairedGroups) :
            /\ MapGet(grouped.pairedGroups, c).before = LastOf(c, "before")
            /\ MapGet(grouped.pairedGroups, c).after = LastOf(c, "after")

C13_Witness ==
    /\ pc = "grouped"
    /\ Len(records) = 3
    /\ records[1].category = records[3].category
    /\ records[2].category = records[3].category
    /\ <<records[1].timing, records[2].timing, records[3].timing>>
           = <<"before", "after", "before">>
    /\ records[1] # records[3]
    /\ MapGet(grouped.pairedGroups, records[3].category).before = records[3]
    /\ MapGet(grouped.pairedGroups, records[3].category).after = records[2]

\* the same standalone sequence, the same categories and, per category, the
\* same before record and after record
SameSlots(g, h) ==
    /\ g.standaloneImages = h.standaloneImages
    /\ KeySet(g.pairedGroups) = KeySet(h.pairedGroups)
    /\ \A c \in KeySet(g.pairedGroups) :
           /\ MapGet(g.pairedGroups, c).before = MapGet(h.pairedGroups, c).before
           /\ MapGet(g.pairedGroups, c).after = MapGet(h.pairedGroups, c).after

SameOrders(g, h) ==
    \A c \in KeySet(g.pairedGroups) \cap KeySet(h.pairedGroups) :
        MapGet(g.pairedGroups, c).order = MapGet(h.pairedGroups, c).order

\* no two records of the input share a category and a timing
NoDuplicateSlot ==
    \A c \in Categories, t \in {"before", "after"} :
        Cardinality(SlotContributors(c, t)) <= 1

\* C14 as stated: regrouping the flattened result gives the same standalone
\* sequence, categories, before and after records and group orders.
C14_RoundTripWithOrder ==
    pc = "regrouped" =>
        SameSlots(grouped, regrouped) /\ SameOrders(grouped, regrouped)

\* C14: regrouping the flattened result gives the same standalone sequence,
\* categories, before records and after records; the group orders are the same
\* when no slot was overwritten, and otherwise the regrouped order is the
\* minimum over the records still held, never below the original order.
C14_RoundTripSlots ==
    pc = "regrouped" =>
        /\ SameSlots(grouped, regrouped)
        /\ NoDuplicateSlot => SameOrders(grouped, regrouped)
        /\ \A c \in KeySet(regrouped.pairedGroups) :
               LET g == MapGet(grouped.pairedGroups, c)
                   h == MapGet(regrouped.pairedGroups, c)
               IN  /\ g.order <= h.order
                   /\ h.order = MinOf({ SlotRecords(g)[i].order :
                                            i \in 1..Len(SlotRecords(g)) })

C14_Witness ==
    /\ pc = "regrouped"
    /\ Len(records) = 3
    /\ Len(grouped.standaloneImages) = 1
    /\ \E c \in KeySet(grouped.pairedGroups) :
           /\ MapGet(grouped.pairedGroups, c).before # UndefinedSlot
           /\ MapGet(grouped.pairedGroups, c).after # UndefinedSlot
    /\ regrouped = grouped

\* the before/after records of the input whose category no earlier
\* before/after record has: one per category, in first-seen order
FirstOfCategory ==
    SelectSeq([i \in 1..Len(records) |-> [at |-> i, image |-> records[i]]],
              LAMBDA e : /\ e.image.timing # "standalone"
                         /\ \A j \in 1..(e.at - 1) :
                                records[j].timing = "standalone"
                                    \/ records[j].category # e.image.category)

\* C28: the standalone output is the subsequence of standalone records in
\* input order; the keys are the categories of the before/after records, in
\* first-seen order; every group has a filled slot, each filled slot holds a
\* record of the group's category and the slot's timing, and the group's order
\* is at most the order of every record it holds.
C28_SoundPartition ==
    pc = "grouped" =>
        /\ grouped.standaloneImages
               = SelectSeq(records, LAMBDA r : r.timing = "standalone")
        /\ grouped.pairedGroups.keys
               = [i \in 1..Len(FirstOfCategory) |-> FirstOfCategory[i].image.category]
        /\ Len(grouped.pairedGroups.get) = Len(grouped.pairedGroups.keys)
        /\ \A i \in 1..Len(grouped.pairedGroups.keys) :
               LET c == grouped.pairedGroups.keys[i]
                   g == grouped.pairedGroups.get[i]
               IN  /\ g.before # UndefinedSlot \/ g.after # UndefinedSlot
                   /\ g.before # UndefinedSlot =>
                          /\ g.before.category = c /\ g.before.timing = "before"
                          /\ g.order <= g.before.order
                   /\ g.after # UndefinedSlot =>
                          /\ g.after.category = c /\ g.after.timing = "after"
                          /\ g.order <= g.after.order

C28_Witness ==
    /\ pc = "grouped"
    /\ Len(records) = 3
    /\ <<records[1].timing, records[2].timing, records[3].timing>>
           = <<"after", "standalone", "before">>
    /\ records[1].category = <<"b">>
    /\ records[2].category = <<"a">>
    /\ records[3].category = <<"a">>
    /\ grouped.standaloneImages = <<records[2]>>
    /\ grouped.pairedGroups.keys = << <<"b">>, <<"a">> >>

(***************************************************************************)
(* Properties of generateTable                                             *)
(***************************************************************************)
IsLit(piece, text) == "lit" \in DOMAIN piece /\ piece.lit = text

\* the rows of a table: what stands between each "<tr>" and its "</tr>"
RECURSIVE RowsOf(_)
RowsOf(pieces) ==
    IF \E i \in 1..Len(pieces) : IsLit(pieces[i], "  <tr>\n")
    THEN LET open  == CHOOSE i \in 1..Len(pieces) :
                          /\ IsLit(pieces[i], "  <tr>\n")
                          /\ \A j \in 1..(i - 1) : ~IsLit(pieces[j], "  <tr>\n")
             close == CHOOSE i \in (open + 1)..Len(pieces) :
                          /\ IsLit(pieces[i], "  </tr>\n")
                          /\ \A j \in (open + 1)..(i - 1) : ~IsLit(pieces[j], "  </tr>\n")
         IN  <<SubSeq(pieces, open + 1, close - 1)>> \o RowsOf(Drop(pieces, close))
    ELSE <<>>

\* the orderings of n groups
Perms(n) == { p \in [1..n -> 1..n] : \A a, b \in 1..n : p[a] = p[b] => a = b }

SlotCell(slot) == IF slot = UndefinedSlot THEN EmptyCell ELSE ImageCell(slot)

\* rows 2j-1 and 2j hold the standalone images 2j-1 and 2j, an empty cell
\* standing for a missing second image
StandaloneRowsInOrder(rows, standaloneImages) ==
    \A j \in 1..((Len(standaloneImages) + 1) \div 2) :
        /\ rows[2 * j - 1] =
               HeaderCell(formatCategoryTitle(standaloneImages[2 * j - 1].category))
               \o (IF 2 * j <= Len(standaloneImages)
                   THEN HeaderCell(formatCategoryTitle(standaloneImages[2 * j].category))
                   ELSE EmptyHeaderCell)
        /\ rows[2 * j] =
               ImageCell(standaloneImages[2 * j - 1])
               \o (IF 2 * j <= Len(standaloneImages)
                   THEN ImageCell(standaloneImages[2 * j])
                   ELSE EmptyCell)

\* from row `first` on, each group takes three rows, the groups in an order p
\* of ascending group order
GroupRowsAscending(rows, first, map) ==
    \E p \in Perms(Len(map.keys)) :
        /\ \A j \in 1..(Len(map.keys) - 1) :
               map.get[p[j]].order <= map.get[p[j + 1]].order
        /\ \A j \in 1..Len(map.keys) :
               /\ rows[first + 3 * j - 3] =
                      GroupHeaderCell(formatCategoryTitle(map.keys[p[j]]))
               /\ rows[first + 3 * j - 2] = BeforeHeaderCell \o AfterHeaderCell
               /\ rows[first + 3 * j - 1] =
                      SlotCell(map.get[p[j]].before) \o SlotCell(map.get[p[j]].after)

TableInOrder(pieces, rows, standaloneImages, map) ==
    /\ Len(rows) = 2 * ((Len(standaloneImages) + 1) \div 2) + 3 * Len(map.keys)
    /\ Len(pieces) = 2 + Len(Concat(rows)) + 2 * Len(rows)
    /\ StandaloneRowsInOrder(rows, standaloneImages)
    /\ GroupRowsAscending(rows, 2 * ((Len(standaloneImages) + 1) \div 2) + 1, map)

\* C23: the table holds the standalone images first, two per pair of rows in
\* the order of the standalone sequence, an odd last image next to an empty
\* cell; the groups follow, three rows each, in ascending group order whatever
\* the order of the keys of the map.
C23_TableOrder ==
    pc = "rendered" =>
        TableInOrder(table, RowsOf(table),
                     grouped.standaloneImages, grouped.pairedGroups)

\* one standalone image, and two groups whose keys were inserted in
\* descending group order
C23_Witness ==
    /\ pc = "rendered"
    /\ Len(grouped.standaloneImages) = 1
    /\ grouped.pairedGroups.keys = << <<"b">>, <<"a">> >>
    /\ grouped.pairedGroups.get[1].order = 2
    /\ grouped.pairedGroups.get[2].order = 0
    /\ RowsOf(table)[3] = GroupHeaderCell(<<"A">>)
    /\ RowsOf(table)[6] = GroupHeaderCell(<<"B">>)

(***************************************************************************)
(* Specification of formatCategoryTitle: a caller formats one category     *)
(***************************************************************************)
MaxCategoryLen == 5

CategoryChars == {"a", "B", "_", " "}

InitCategory ==
    /\ pc = "ready"
    /\ categoryArg \in SeqsUpTo(CategoryChars, MaxCategoryLen)
    /\ categoryTitle = Null
    /\ table = Null
    /\ FnUnused
    /\ DocUnused
    /\ AgreeUnused
    /\ GroupUnused
    /\ TitleUnused
    /\ ClipUnused

CallFormatCategoryTitle ==
    /\ pc = "ready"
    /\ categoryTitle' = formatCategoryTitle(categoryArg)
    /\ pc' = "titled"
    /\ UNCHANGED <<categoryArg, table, fnVars, docVars, agreeVars, groupVars,
                   titleVars, clipVars>>

NextCategory == CallFormatCategoryTitle

SpecCategory == InitCategory /\ [][NextCategory]_vars

PagePrefixes == { <<"1", ".", " ">>, <<"2", ".", " ">> }

PageNames ==
    { <<"l","o","g","i","n","_","s","c","r","e","e","n">>,
      <<"l","o","g","i","n"," ","s","c","r","e","e","n">>,
      <<"L","o","g","i","n">> }

PageSuffixes ==
    { <<"_","b","e","f","o","r","e">>, <<"_","a","f","t","e","r">>,
      <<" ","a","f","t","e","r">>, <<>> }

PageAlts == { p \o n \o s : p \in PagePrefixes, n \in PageNames, s \in PageSuffixes }

Url1 == <<"u","r","l","1",".","j","p","g">>
Url2 == <<"u","r","l","2",".","j","p","g">>

\* two img tags, one per line
PageOf(alt1, alt2) == TagSyntax(alt1, Url1) \o <<"\n">> \o TagSyntax(alt2, Url2)

Pages == { PageOf(a1, a2) : a1 \in PageAlts, a2 \in PageAlts }

InitPage ==
    /\ pc = "page"
    /\ content \in Pages
    /\ entries = Null
    /\ index = Null
    /\ images = Null
    /\ result = Null
    /\ GroupUnused
    /\ TableUnused
    /\ FnUnused
    /\ AgreeUnused
    /\ TitleUnused
    /\ ClipUnused

\* const images = parseImages(htmlContent)
CallParseImagesOfPage ==
    /\ pc = "page"
    /\ records' = parseImages(content)
    /\ pc' = "ready"
    /\ UNCHANGED <<grouped, regrouped, fnVars, docVars, agreeVars,
                   titleVars, clipVars, tableVars>>

NextPage ==
    \/ CallParseImagesOfPage
    \/ CallGroupImagesByCategory
    \/ CallGenerateTable

SpecPage == InitPage /\ [][NextPage]_vars

\* the page of the README: "1. login_screen_before" and "1. login_screen_after"
ReadmePage ==
    PageOf(<<"1", ".", " ">> \o <<"l","o","g","i","n","_","s","c","r","e","e","n">>
               \o <<"_","b","e","f","o","r","e">>,
           <<"1", ".", " ">> \o <<"l","o","g","i","n","_","s","c","r","e","e","n">>
               \o <<"_","a","f","t","e","r">>)

LoginScreenTitle == <<"L","o","g","i","n"," ","S","c","r","e","e","n">>
LoginScreenAsFormatted == <<"L","o","g","i","n"," ","s","c","r","e","e","n">>

\* a single paired section: its header, the Before/After row, and a row of two
\* image cells with the two sources
IsPairedSection(rows, header, beforeSrc, afterSrc) ==
    /\ Len(rows) = 3
    /\ rows[1] = GroupHeaderCell(header)
    /\ rows[2] = BeforeHeaderCell \o AfterHeaderCell
    /\ Len(rows[3]) = 10
    /\ rows[3][2] = Val(beforeSrc)
    /\ rows[3][7] = Val(afterSrc)

\* C25: the README's page gives a single paired section whose header is
\* "Login Screen", with url1.jpg in the Before column and url2.jpg in the
\* After column.
C25_LoginScreenSection ==
    (pc = "rendered" /\ content = ReadmePage) =>
        IsPairedSection(RowsOf(table), LoginScreenTitle, Url1, Url2)

\* what the page gives: the same section under the header "Login screen"
C25_SectionAsFormatted ==
    (pc = "rendered" /\ content = ReadmePage) =>
        /\ grouped.pairedGroups.keys = << <<"l","o","g","i","n"," ","s","c","r","e","e","n">> >>
        /\ IsPairedSection(RowsOf(table), LoginScreenAsFormatted, Url1, Url2)

C25_Reached == pc = "rendered" /\ content = ReadmePage

(***************************************************************************)
(* parsePRTitle                                                            *)
(***************************************************************************)
\* [A-Za-z]
LetterClass == Range(LowerAZ) \cup Range(UpperAZ)

\* the line terminators, which '.' does not match (those the inputs use)
LineTerminators == {"\n"}

\* (.+)$ applied to what is left of the input: one or more characters, none of
\* them a line terminator, up to the end of the input
DotPlusToEnd(s) == s # <<>> /\ \A i \in 1..Len(s) : s[i] \notin LineTerminators

\* ^([A-Za-z]+)-(\d+) : the two groups and the number of characters matched,
\* or Null
SlugHead(s) ==
    LET n == RunLen(s, 1, LetterClass)
    IN  IF n >= 1 /\ n + 1 <= Len(s) /\ s[n + 1] = "-"
        THEN LET d == RunLen(s, n + 2, DigitClass)
             IN  IF d >= 1
                 THEN [prefix |-> Take(s, n), number |-> SubSeq(s, n + 2, n + 1 + d),
                       len |-> n + 1 + d]
                 ELSE Null
        ELSE Null

\* trimmed.match(/^([A-Za-z]+)-(\d+)(?:-[^/]+)?\/(.+)$/)
slashSlugMatch(trimmed) ==
    LET head == SlugHead(trimmed)
    IN  IF head = Null THEN Null
        ELSE LET p == head.len + 1
                 k == RunLenNot(trimmed, p + 1, {"/"})
             IN  IF /\ p <= Len(trimmed) /\ trimmed[p] = "-"
                    /\ k >= 1 /\ p + 1 + k <= Len(trimmed)
                    /\ DotPlusToEnd(Drop(trimmed, p + 1 + k))
                 THEN [prefix |-> head.prefix, number |-> head.number,
                       slug |-> Drop(trimmed, p + 1 + k)]
                 ELSE IF /\ p <= Len(trimmed) /\ trimmed[p] = "/"
                         /\ DotPlusToEnd(Drop(trimmed, p))
                 THEN [prefix |-> head.prefix, number |-> head.number,
                       slug |-> Drop(trimmed, p)]
                 ELSE Null

\* trimmed.match(/^([A-Za-z]+)-(\d+)-(.+)$/)
hyphenSlugMatch(trimmed) ==
    LET head == SlugHead(trimmed)
    IN  IF head = Null THEN Null
        ELSE LET p == head.len + 1
             IN  IF /\ p <= Len(trimmed) /\ trimmed[p] = "-"
                    /\ DotPlusToEnd(Drop(trimmed, p))
                 THEN [prefix |-> head.prefix, number |-> head.number,
                       slug |-> Drop(trimmed, p)]
                 ELSE Null

\* variant of SlugMatch: the hyphen-slug pattern is tried first
SlugMatchHyphenFirst(trimmed) ==
    IF hyphenSlugMatch(trimmed) # Null THEN hyphenSlugMatch(trimmed)
    ELSE slashSlugMatch(trimmed)

\* slashSlugMatch ?? hyphenSlugMatch
SlugMatch(trimmed) ==
    IF slashSlugMatch(trimmed) # Null THEN slashSlugMatch(trimmed)
    ELSE hyphenSlugMatch(trimmed)

\* [_-]
SlugSeparators == {"_", "-"}

\* variant of ReplaceSlugSeparators: the slug is left as it is
KeepSlugSeparators(s) == s

\* featureSlug.replace(/[_-]+/g, " ")
RECURSIVE ReplaceSlugSeparators(_)
ReplaceSlugSeparators(s) ==
    IF s = <<>> THEN <<>>
    ELSE IF Head(s) \in SlugSeparators
    THEN <<" ">> \o ReplaceSlugSeparators(Drop(s, RunLen(s, 1, SlugSeparators)))
    ELSE <<Head(s)>> \o ReplaceSlugSeparators(Tail(s))

\* variant of SplitWhitespace: every whitespace character separates
RECURSIVE SplitEachWhitespace(_)
SplitEachWhitespace(s) ==
    IF \A i \in 1..Len(s) : ~IsSpace(s[i]) THEN <<s>>
    ELSE LET i == CHOOSE i \in 1..Len(s) :
                      IsSpace(s[i]) /\ \A j \in 1..(i - 1) : ~IsSpace(s[j])
         IN  <<Take(s, i - 1)>> \o SplitEachWhitespace(Drop(s, i))

\* s.split(/\s+/) : the pieces between the whitespace runs, empty pieces at
\* the ends included
RECURSIVE SplitWhitespace(_)
SplitWhitespace(s) ==
    IF \A i \in 1..Len(s) : ~IsSpace(s[i]) THEN <<s>>
    ELSE LET i == CHOOSE i \in 1..Len(s) :
                      IsSpace(s[i]) /\ \A j \in 1..(i - 1) : ~IsSpace(s[j])
             k == RunLen(s, i, SpaceClass)
         IN  <<Take(s, i - 1)>> \o SplitWhitespace(Drop(s, i + k - 1))

\* .filter(Boolean) on an array of strings
FilterBoolean(ws) == SelectSeq(ws, LAMBDA w : w # <<>>)

\* String.prototype.toLowerCase / toUpperCase
toLowerCase(s) == [i \in 1..Len(s) |-> ToLower(s[i])]
toUpperCase(s) == [i \in 1..Len(s) |-> ToUpper(s[i])]

\* the array `words` of parsePRTitle
WordsOf(trimmed) ==
    LET match == SlugMatch(trimmed)
    IN  IF match # Null
        THEN <<match.prefix, match.number>>
                 \o FilterBoolean(SplitWhitespace(ReplaceSlugSeparators(match.slug)))
        ELSE SplitWhitespace(trimmed)

NoWord     == <<"n", "o">>
TicketWord == <<"t", "i", "c", "k", "e", "t">>
NoTicketId == <<"[", "n", "o", "-", "t", "i", "c", "k", "e", "t", "]">>

\* variant of TicketOf: the words are compared without case folding
TicketOfCaseSensitive(words) ==
    LET firstWord  == words[1]
        secondWord == IF Len(words) > 1 THEN words[2] ELSE <<>>
    IN  IF firstWord = NoWord /\ secondWord = TicketWord
        THEN [ticketId |-> NoTicketId, remainingWords |-> Drop(words, 2)]
        ELSE IF firstWord = NoWord \o TicketWord
        THEN [ticketId |-> NoTicketId, remainingWords |-> Drop(words, 1)]
        ELSE IF Len(words) >= 2
        THEN [ticketId |-> <<"[">> \o toUpperCase(words[1]) \o <<"-">>
                               \o toUpperCase(words[2]) \o <<"]">>,
              remainingWords |-> Drop(words, 2)]
        ELSE [ticketId |-> <<"[">> \o toUpperCase(words[1]) \o <<"]">>,
              remainingWords |-> <<>>]

\* ticketId and remainingWords, from a non-empty array of words
TicketOf(words) ==
    LET firstWord  == toLowerCase(words[1])
        secondWord == IF Len(words) > 1 THEN toLowerCase(words[2]) ELSE <<>>
    IN  IF firstWord = NoWord /\ secondWord = TicketWord
        THEN [ticketId |-> NoTicketId, remainingWords |-> Drop(words, 2)]
        ELSE IF firstWord = NoWord \o TicketWord
        THEN [ticketId |-> NoTicketId, remainingWords |-> Drop(words, 1)]
        ELSE IF Len(words) >= 2
        THEN [ticketId |-> <<"[">> \o toUpperCase(words[1]) \o <<"-">>
                               \o toUpperCase(words[2]) \o <<"]">>,
              remainingWords |-> Drop(words, 2)]
        ELSE [ticketId |-> <<"[">> \o toUpperCase(words[1]) \o <<"]">>,
              remainingWords |-> <<>>]

PartWord == <<"p", "a", "r", "t">>

\* /^\d+$/.test(word)
IsAllDigits(word) == word # <<>> /\ \A i \in 1..Len(word) : IsDigit(word[i])

\* featureWords[i] is "part" and featureWords[i + 1] a number (i from 0)
IsPartAt(featureWords, i) ==
    /\ toLowerCase(featureWords[i + 1]) = PartWord
    /\ IsAllDigits(featureWords[i + 2])

\* variant of PartIndex: the scan runs forward and stops at the first match
PartIndexFirst(featureWords) ==
    LET hits == { i \in 0..(Len(featureWords) - 2) : IsPartAt(featureWords, i) }
    IN  IF hits = {} THEN -1
        ELSE CHOOSE i \in hits : \A j \in hits : i <= j

\* the index at which the backward scan of featureWords breaks, or -1
PartIndex(featureWords) ==
    LET hits == { i \in 0..(Len(featureWords) - 2) : IsPartAt(featureWords, i) }
    IN  IF hits = {} THEN -1
        ELSE CHOOSE i \in hits : \A j \in hits : j <= i

\* `[PART-${featureWords[i + 1]}]`
PartSuffix(number) == <<"[", "P", "A", "R", "T", "-">> \o number \o <<"]">>

\* featureWords.join(" ")
RECURSIVE Join(_)
Join(ws) ==
    IF ws = <<>> THEN <<>>
    ELSE IF Len(ws) = 1 THEN ws[1]
    ELSE ws[1] \o <<" ">> \o Join(Tail(ws))

\* variant of Capitalize: every letter is uppercased
CapitalizeAll(featureName) == toUpperCase(featureName)

\* featureName.charAt(0).toUpperCase() + featureName.slice(1)
Capitalize(featureName) ==
    IF featureName = <<>> THEN <<>>
    ELSE <<ToUpper(featureName[1])>> \o Tail(featureName)

\* variant of TitleLayout: the part suffix goes behind the feature name
TitleLayoutSuffixLast(ticketId, partSuffix, capitalizedFeature) ==
    IF partSuffix # <<>>
    THEN ticketId \o <<" ">> \o capitalizedFeature \o <<" ">> \o partSuffix
    ELSE ticketId \o <<" ">> \o capitalizedFeature

\* the final template strings
TitleLayout(ticketId, partSuffix, capitalizedFeature) ==
    IF partSuffix # <<>>
    THEN ticketId \o <<" ">> \o partSuffix \o <<" ">> \o capitalizedFeature
    ELSE ticketId \o <<" ">> \o capitalizedFeature

\* lines 84-98: the result, from the ticket id, the remaining words and the
\* index at which the scan for part N stopped
FormatFeature(ticketId, remainingWords, i) ==
    LET partSuffix   == IF i >= 0 THEN PartSuffix(remainingWords[i + 2]) ELSE <<>>
        featureWords == IF i >= 0
                        THEN Take(remainingWords, i) \o Drop(remainingWords, i + 2)
                        ELSE remainingWords
    IN  IF Len(featureWords) = 0 /\ partSuffix # <<>>
        THEN ticketId \o <<" ">> \o partSuffix
        ELSE TitleLayout(ticketId, partSuffix, Capitalize(Join(featureWords)))

\* lines 60-98: the result, from the ticket id and the remaining words
FormatTicket(ticket) ==
    IF Len(ticket.remainingWords) = 0 THEN ticket.ticketId
    ELSE FormatFeature(ticket.ticketId, ticket.remainingWords,
                       PartIndex(ticket.remainingWords))

\* lines 32-98: the result, from the array of words
FormatWords(words) ==
    IF Len(words) = 0 THEN <<>>
    ELSE FormatTicket(TicketOf(words))

parsePRTitle(t) == FormatWords(WordsOf(Trim(t)))

(***************************************************************************)
(* Titles given to parsePRTitle: a sequence of typed words, written in one *)
(* of several shapes                                                       *)
(***************************************************************************)
MaxWords == 4

TitleWords ==
    { <<"n", "o">>, <<"T", "i", "c", "k", "e", "t">>,
      <<"N", "o", "T", "i", "c", "k", "e", "t">>,
      <<"P", "a", "R", "t">>, <<"1">>, <<"2", "0">>, <<"1", "x", "Y">> }

TitleShapes ==
    { "plain", "padded", "ticketed", "hyphen", "hyphenNoTicket", "slash",
      "slashText", "slashLines" }

RECURSIVE JoinWith(_, _)
JoinWith(ws, sep) ==
    IF ws = <<>> THEN <<>>
    ELSE IF Len(ws) = 1 THEN ws[1]
    ELSE ws[1] \o sep \o JoinWith(Tail(ws), sep)

TicketHead   == <<"M", "b", " ", "8", "0">>
SlugTicket   == <<"m", "b", "-", "9", "5">>
SlugText     == <<"P", "a", "R", "t", "-", "2">>
SlugNoTicket == <<"N", "o", "T", "i", "c", "k", "e", "t", "-", "7">>

\* the title as it is typed
RenderTitle(sh, ws) ==
    CASE sh = "plain"      -> JoinWith(ws, <<" ">>)
      [] sh = "padded"     -> <<" ", "\t">> \o JoinWith(ws, <<" ", " ">>) \o <<"\n">>
      [] sh = "ticketed"   -> TicketHead \o <<" ">> \o JoinWith(ws, <<" ">>)
      [] sh = "hyphen"     -> SlugTicket \o <<"-">> \o JoinWith(ws, <<"-">>)
      [] sh = "hyphenNoTicket" ->
             SlugNoTicket \o <<"-">> \o JoinWith(ws, <<"-">>)
      [] sh = "slash"      -> SlugTicket \o <<"/">> \o JoinWith(ws, <<"_", "-">>)
      [] sh = "slashText"  -> <<" ">> \o SlugTicket \o <<"-">> \o SlugText \o <<"/">>
                                  \o JoinWith(ws, <<" ">>)
      [] sh = "slashLines" -> SlugTicket \o <<"/">> \o JoinWith(ws, <<"\n">>)

InitTitle ==
    /\ pc = "ready"
    /\ titleShape \in TitleShapes
    /\ typed \in SeqsUpTo(TitleWords, MaxWords)
    /\ title = RenderTitle(titleShape, typed)
    /\ formatted = Null
    /\ FnUnused
    /\ DocUnused
    /\ AgreeUnused
    /\ GroupUnused
    /\ ClipUnused
    /\ TableUnused

CallParsePRTitle ==
    /\ pc = "ready"
    /\ formatted' = parsePRTitle(title)
    /\ pc' = "formatted"
    /\ UNCHANGED <<titleShape, typed, title, fnVars, docVars, agreeVars,
                   groupVars, clipVars, tableVars>>

NextTitle == CallParsePRTitle

SpecTitle == InitTitle /\ [][NextTitle]_vars

(***************************************************************************)
(* Properties of parsePRTitle                                              *)
(***************************************************************************)
\* the title was typed so that its word list is known from the typed words
HasWordList ==
    \/ titleShape \in {"plain", "padded"} /\ typed # <<>>
    \/ titleShape = "ticketed"
    \/ titleShape \in {"hyphen", "hyphenNoTicket", "slash", "slashText"}
           /\ typed # <<>>
    \/ titleShape = "slashLines" /\ Len(typed) = 1

\* the word list w1..wn of the title
WordList ==
    CASE titleShape \in {"plain", "padded"} -> typed
      [] titleShape = "ticketed" -> <<<<"M", "b">>, <<"8", "0">>>> \o typed
      [] titleShape = "hyphenNoTicket" ->
             <<<<"N", "o", "T", "i", "c", "k", "e", "t">>, <<"7">>>> \o typed
      [] OTHER -> <<<<"m", "b">>, <<"9", "5">>>> \o typed

\* the ticket id of a word list and the number of words it consumes
ExpectedTicket(w) ==
    LET l1 == LowerAll(w[1])
        l2 == IF Len(w) >= 2 THEN LowerAll(w[2]) ELSE <<>>
    IN  IF l1 = <<"n", "o">> /\ l2 = <<"t", "i", "c", "k", "e", "t">>
        THEN [id |-> <<"[", "n", "o", "-", "t", "i", "c", "k", "e", "t", "]">>, consumed |-> 2]
        ELSE IF l1 = <<"n", "o", "t", "i", "c", "k", "e", "t">>
        THEN [id |-> <<"[", "n", "o", "-", "t", "i", "c", "k", "e", "t", "]">>, consumed |-> 1]
        ELSE IF Len(w) >= 2
        THEN [id |-> <<"[">> \o [i \in 1..Len(w[1]) |-> ToUpper(w[1][i])] \o <<"-">>
                         \o [i \in 1..Len(w[2]) |-> ToUpper(w[2][i])] \o <<"]">>,
              consumed |-> 2]
        ELSE [id |-> <<"[">> \o [i \in 1..Len(w[1]) |-> ToUpper(w[1][i])] \o <<"]">>,
              consumed |-> 1]

ExpectedId == ExpectedTicket(WordList).id

\* the words left after the ticket id
Remaining == Drop(WordList, ExpectedTicket(WordList).consumed)

OnlyDigits(word) == word # <<>> /\ \A i \in 1..Len(word) : word[i] \in DigitClass

\* positions i of Remaining where word i is "part" and word i+1 a number
PartPairs ==
    { i \in 1..(Len(Remaining) - 1) :
          LowerAll(Remaining[i]) = <<"p", "a", "r", "t">> /\ OnlyDigits(Remaining[i + 1]) }

UpperFirst(s) == IF s = <<>> THEN <<>> ELSE <<ToUpper(s[1])>> \o Tail(s)

\* s holds t at position i
HoldsAt(s, t, i) == i + Len(t) - 1 <= Len(s) /\ SubSeq(s, i, i + Len(t) - 1) = t

PartOpening == <<"[", "P", "A", "R", "T", "-">>

\* C15: the ticket id follows the priority no ticket / noticket / two words /
\* one word on the word list; the result starts with that id and is the id
\* alone when no words remain.
C15_TicketId ==
    (pc = "formatted" /\ HasWordList) =>
        /\ StartsWith(formatted, ExpectedId)
        /\ Remaining = <<>> => formatted = ExpectedId
        /\ Remaining # <<>> => /\ Len(formatted) > Len(ExpectedId) + 1
                               /\ formatted[Len(ExpectedId) + 1] = " "

C15_Witness ==
    /\ pc = "formatted"
    /\ titleShape = "padded"
    /\ typed = <<<<"n", "o">>, <<"T", "i", "c", "k", "e", "t">>, <<"1", "x", "Y">>>>
    /\ formatted = <<"[", "n", "o", "-", "t", "i", "c", "k", "e", "t", "]", " ", "1", "x", "Y">>

\* C16: the rightmost pair "part" + number among the remaining words gives
\* the suffix [PART-number]; exactly these two words are removed and all other
\* words, an earlier pair included, stay in the feature name in their order.
C16_LastPartWins ==
    (pc = "formatted" /\ HasWordList /\ PartPairs # {}) =>
        LET i      == MaxOf(PartPairs)
            others == Take(Remaining, i - 1) \o Drop(Remaining, i + 1)
            suffix == PartOpening \o Remaining[i + 1] \o <<"]">>
        IN  formatted = ExpectedId \o <<" ">> \o suffix
                \o (IF others = <<>> THEN <<>>
                    ELSE <<" ">> \o UpperFirst(JoinWith(others, <<" ">>)))

C16_Witness ==
    /\ pc = "formatted"
    /\ titleShape = "ticketed"
    /\ typed = <<<<"P", "a", "R", "t">>, <<"1">>, <<"P", "a", "R", "t">>, <<"2", "0">>>>
    /\ formatted = <<"[", "M", "B", "-", "8", "0", "]", " ", "[", "P", "A", "R", "T", "-", "2", "0", "]", " ", "P", "a", "R", "t", " ", "1">>

\* C17 as stated: without a pair "part" + number among the remaining words,
\* the result holds no [PART-...] segment and is the ticket id, one space and
\* the remaining words joined by single spaces, first character uppercased.
C17_NoPartPair ==
    (pc = "formatted" /\ HasWordList /\ PartPairs = {}) =>
        /\ formatted = ExpectedId \o <<" ">>
                           \o UpperFirst(JoinWith(Remaining, <<" ">>))
        /\ \A i \in 1..Len(formatted) : ~HoldsAt(formatted, PartOpening, i)

\* C17: without a pair "part" + number among the remaining words, and with at
\* least one remaining word, the result is the ticket id, one space and the
\* remaining words joined by single spaces, unchanged but for the first
\* character uppercased; [PART- occurs at most as the ticket id itself.
C17_NoPartPairSomeWords ==
    (pc = "formatted" /\ HasWordList /\ PartPairs = {} /\ Remaining # <<>>) =>
        /\ formatted = ExpectedId \o <<" ">>
                           \o UpperFirst(JoinWith(Remaining, <<" ">>))
        /\ \A i \in 2..Len(formatted) : ~HoldsAt(formatted, PartOpening, i)

C17_Witness ==
    /\ pc = "formatted"
    /\ titleShape = "ticketed"
    /\ typed = <<<<"n", "o">>, <<"P", "a", "R", "t">>, <<"1", "x", "Y">>>>
    /\ formatted = <<"[", "M", "B", "-", "8", "0", "]", " ", "N", "o", " ", "P", "a", "R", "t", " ", "1", "x", "Y">>

\* C18: when a pair was found the suffix stands directly after the ticket id,
\* before the feature name, and is the end of the result when nothing else
\* remains; when none was found nothing stands between the ticket id and the
\* feature name.
C18_Layout ==
    (pc = "formatted" /\ HasWordList) =>
        IF PartPairs # {}
        THEN LET suffix == PartOpening \o Remaining[MaxOf(PartPairs) + 1] \o <<"]">>
                 head   == ExpectedId \o <<" ">> \o suffix
             IN  /\ StartsWith(formatted, head)
                 /\ Len(Remaining) = 2 => formatted = head
                 /\ Len(Remaining) > 2 =>
                        /\ Len(formatted) > Len(head) + 1
                        /\ formatted[Len(head) + 1] = " "
                        /\ formatted[Len(head) + 2] # " "
                 /\ formatted[Len(formatted)] # " "
        ELSE Remaining # <<>> =>
                 /\ StartsWith(formatted, ExpectedId \o <<" ">>)
                 /\ Drop(formatted, Len(ExpectedId) + 1)
                        = UpperFirst(JoinWith(Remaining, <<" ">>))

C18_Witness ==
    /\ pc = "formatted"
    /\ titleShape = "ticketed"
    /\ \/ typed = <<<<"P", "a", "R", "t">>, <<"2", "0">>>> /\ formatted = <<"[", "M", "B", "-", "8", "0", "]", " ", "[", "P", "A", "R", "T", "-", "2", "0", "]">>
       \/ typed = <<<<"P", "a", "R", "t">>, <<"2", "0">>, <<"n", "o">>>> /\ formatted = <<"[", "M", "B", "-", "8", "0", "]", " ", "[", "P", "A", "R", "T", "-", "2", "0", "]", " ", "N", "o">>

\* C19 as stated: the result is the empty string exactly for the inputs that
\* are empty after trimming.
C19_EmptyIffEmpty ==
    pc = "formatted" => (Trim(title) = <<>> <=> formatted = <<>>)

\* every input that is not empty after trimming gives a non-empty result
C19_NonEmptyForWords ==
    (pc = "formatted" /\ Trim(title) # <<>>) => formatted # <<>>

\* the title has the slash-slug shape <letters>-<digits>[-<text>]/<rest>
IsSlashShape == titleShape \in {"slash", "slashText", "slashLines"} /\ typed # <<>>

\* the result for the words w, the first two being the ticket
ResultFor(w) ==
    LET id     == ExpectedTicket(w).id
        rem    == Drop(w, ExpectedTicket(w).consumed)
        pairs  == { i \in 1..(Len(rem) - 1) :
                        LowerAll(rem[i]) = <<"p", "a", "r", "t">> /\ OnlyDigits(rem[i + 1]) }
    IN  IF rem = <<>> THEN id
        ELSE IF pairs = {}
        THEN id \o <<" ">> \o UpperFirst(JoinWith(rem, <<" ">>))
        ELSE LET i      == MaxOf(pairs)
                 others == Take(rem, i - 1) \o Drop(rem, i + 1)
             IN  id \o <<" ">> \o PartOpening \o rem[i + 1] \o <<"]">>
                     \o (IF others = <<>> THEN <<>>
                         ELSE <<" ">> \o UpperFirst(JoinWith(others, <<" ">>)))

SpacedForm ==
    CASE titleShape = "hyphen" ->
             <<"m", "b", " ", "9", "5", " ">> \o JoinWith(typed, <<" ">>)
      [] titleShape = "hyphenNoTicket" ->
             <<"N", "o", "T", "i", "c", "k", "e", "t", " ", "7", " ">>
                 \o JoinWith(typed, <<" ">>)
      [] OTHER -> JoinWith(typed, <<" ">>)

\* C21: a hyphen-slug title L-D-w1-...-wk gives the result of the
\* space-separated title L D w1 ... wk, ticket id and part suffix included.
C21_HyphenSlugAsSpaced ==
    (pc = "formatted" /\ titleShape \in {"hyphen", "hyphenNoTicket"}
        /\ typed # <<>>) =>
        /\ formatted = parsePRTitle(SpacedForm)
        /\ formatted = ResultFor(WordList)

C21_Witness ==
    /\ pc = "formatted"
    /\ titleShape = "hyphen"
    /\ hyphenSlugMatch(title) # Null
    /\ slashSlugMatch(title) = Null
    /\ typed = <<<<"n", "o">>, <<"P", "a", "R", "t">>, <<"2", "0">>>>
    /\ formatted = <<"[", "M", "B", "-", "9", "5", "]", " ",
                     "[", "P", "A", "R", "T", "-", "2", "0", "]", " ", "N", "o">>

\* s has no whitespace at its ends and no two spaces in a row
IsNormalized(s) ==
    /\ s # <<>> => s[1] \notin SpaceClass /\ s[Len(s)] \notin SpaceClass
    /\ \A i \in 1..(Len(s) - 1) : ~(s[i] = " " /\ s[i + 1] = " ")

\* C22: a title typed with whitespace around it and runs of whitespace between
\* its words gives the result of the same words separated by single spaces,
\* and the result of a non-slug title has no whitespace at its ends and no two
\* consecutive spaces.
C22_WhitespaceNormalised ==
    (pc = "formatted" /\ titleShape \in {"plain", "padded", "ticketed"}) =>
        /\ titleShape = "padded" => formatted = parsePRTitle(SpacedForm)
        /\ IsNormalized(formatted)

C22_Witness ==
    /\ pc = "formatted"
    /\ titleShape = "padded"
    /\ typed = <<<<"n", "o">>, <<"1">>, <<"1", "x", "Y">>, <<"n", "o">>>>
    /\ title # SpacedForm
    /\ formatted = <<"[", "N", "O", "-", "1", "]", " ", "1", "x", "Y", " ", "n", "o">>

(***************************************************************************)
(* convertClipboard: the branch taken on the clipboard content             *)
(***************************************************************************)
LinkPrefix == <<"!", "[">>

\* variant of IsImageSnippet: the prefixes are looked for in the raw content
IsImageSnippetUntrimmed(clipboardContent) ==
    \/ StartsWith(clipboardContent, ImgPrefix)
    \/ StartsWith(clipboardContent, LinkPrefix)

\* trimmedClipboard.startsWith("<img") || trimmedClipboard.startsWith("![")
IsImageSnippet(clipboardContent) ==
    LET trimmedClipboard == Trim(clipboardContent)
    IN  \/ StartsWith(trimmedClipboard, ImgPrefix)
        \/ StartsWith(trimmedClipboard, LinkPrefix)

\* a run of convertClipboard ends with: the branch it took, the images it
\* extracted, the dialog it showed last and the value it computed for the
\* clipboard (the formatted title, or the grouping that generateTable renders)
Outcome(branch, imgs, dialogTitle, value) ==
    [mode |-> branch, images |-> imgs, dialog |-> dialogTitle, produced |-> value]

\* lines 139-160: PR title mode, once the title is formatted
TitleBranch(formattedTitle) ==
    IF formattedTitle = <<>>
    THEN Outcome("title", Null, "Parse Error", Null)
    ELSE Outcome("title", Null, "Success", formattedTitle)

\* lines 167-195: image table mode, once the images are extracted
ImageBranch(imgs) ==
    IF Len(imgs) = 0
    THEN Outcome("image", imgs, "No Images Found", Null)
    ELSE Outcome("image", imgs, "Success", groupImagesByCategory(imgs))

convertClipboard(clipboardContent) ==
    IF Trim(clipboardContent) = <<>>
    THEN Outcome("empty", Null, "No Content", Null)
    ELSE IF ~IsImageSnippet(clipboardContent)
    THEN TitleBranch(parsePRTitle(clipboardContent))
    ELSE ImageBranch(parseImagesFromClipboard(clipboardContent))

(***************************************************************************)
(* Clipboard contents: a snippet (image declarations, a title, or a few    *)
(* characters that resemble a prefix) between leading and trailing         *)
(* whitespace                                                              *)
(***************************************************************************)
MaxSnippetEntries == 2
MaxSnippetWords == 2

NearPrefixes ==
    { <<"<", "i", "m">>, <<"<", "i", "m", "g">>, <<"<", "I", "m", "g", ">">>,
      <<"!">>, <<"!", "[">>, <<"!", " ", "[", "x", "]", "(", "u", ")">>,
      <<"x", " ", "<", "i", "m", "g", ">">> }

Snippets ==
    { Render(es) : es \in SeqsUpTo(TagEntries, MaxSnippetEntries)
                            \cup SeqsUpTo(LinkEntries, MaxSnippetEntries) }
        \cup { RenderTitle(sh, ws) : sh \in TitleShapes,
                                     ws \in SeqsUpTo(TitleWords, MaxSnippetWords) }
        \cup NearPrefixes

LeadingSpace  == { <<>>, <<" ", "\n">> }
TrailingSpace == { <<>>, <<"\n">>, <<"\t", " ">> }

InitClip ==
    /\ pc = "ready"
    /\ snippet \in Snippets
    /\ \E lead \in LeadingSpace, trail \in TrailingSpace :
           clipboard = lead \o snippet \o trail
    /\ run = Null
    /\ ProcUnused
    /\ FnUnused
    /\ DocUnused
    /\ AgreeUnused
    /\ GroupUnused
    /\ TitleUnused
    /\ TableUnused

CallConvertClipboard ==
    /\ pc = "ready"
    /\ run' = convertClipboard(clipboard)
    /\ pc' = "returned"
    /\ UNCHANGED <<snippet, clipboard, procVars, fnVars, docVars, agreeVars,
                   groupVars, titleVars, tableVars>>

NextClip == CallConvertClipboard

SpecClip == InitClip /\ [][NextClip]_vars

(***************************************************************************)
(* Properties of the dispatch                                              *)
(***************************************************************************)
\* the snippet without the whitespace around it
Bare == Trim(snippet)

\* the mode of the three-way classification: "<img" gives the tag syntax,
\* "![" the link syntax, anything else a title
ClassOf(s) ==
    IF Len(s) >= 4 /\ SubSeq(s, 1, 4) = <<"<", "i", "m", "g">> THEN "tag"
    ELSE IF Len(s) >= 2 /\ SubSeq(s, 1, 2) = <<"!", "[">> THEN "link"
    ELSE "title"

\* the run took the branch of the class, with the grammar of the class
TookBranchOf(class) ==
    CASE class = "tag"   -> run.mode = "image" /\ run.images = parseImages(Bare)
      [] class = "link"  -> run.mode = "image"
                                /\ run.images = parseImagesMarkdown(Bare)
      [] class = "title" -> run.mode = "title"

isRunningFromAppAlways(execInBundle, appModeArg) == TRUE

\* execPath.includes(".app/") || Deno.args.includes("--app-mode")
isRunningFromApp(execInBundle, appModeArg) == execInBundle \/ appModeArg

\* variant of IsEmptyContent: only the empty string counts as empty
IsEmptyContentUntrimmed(clipboardContent) == clipboardContent = <<>>

\* !clipboardContent.trim()
IsEmptyContent(clipboardContent) == Trim(clipboardContent) = <<>>

\* showProgress, showDialog, pasteResult: console.log in CLI mode; in app mode
\* osascript, whose output is awaited and whose exit status is never read
OsascriptOutcomes ==
    IF isRunningFromApp(inBundle, appFlag) THEN BOOLEAN ELSE {TRUE}

\* readClipboard, writeClipboard: pbpaste / pbcopy, `output.success`
PbOutcomes == BOOLEAN

\* a call: what was called, from which point of convertClipboard, and whether
\* the tool behind it succeeded
Event(op, at, ok) == [op |-> op, at |-> at, ok |-> ok]

\* a call of the core, made between two awaits
CoreCall(op) == <<Event(op, "core", TRUE)>>

\* the awaited call made at pc, then the calls of the core that follow it
Emit(op, ok, coreCalls) ==
    events' = Append(events, Event(op, pc, ok)) \o coreCalls

\* lines 120-134: where the run goes once the clipboard was read
AfterRead(clipboardContent) ==
    IF IsEmptyContent(clipboardContent) THEN "dlgNoContent"
    ELSE IF ~IsImageSnippet(clipboardContent) THEN "progressTitle"
    ELSE "progressImages"

\* where the run goes after a dialog: `return` after a notice; pasteResult in
\* app mode and the end of the function otherwise after "Success"; Deno.exit(1)
\* after "Error"
AfterDialog(at, app) ==
    IF at = "dlgSuccess" THEN (IF app THEN "pasteResult" ELSE "returned")
    ELSE IF at = "dlgError" THEN "exit1"
    ELSE "returned"

\* what a run never changes
runFixed ==
    <<snippet, inBundle, appFlag, run, regrouped, titleShape, typed, title,
      categoryArg, categoryTitle, fnVars, docVars, agreeVars>>

RunSnippets ==
    { <<>>,
      <<" ", "\n">>,
      <<"x">>,
      <<"m", "b", " ", "9", "5", " ", "x">>,
      <<"<", "i", "m", "g", ">">>,
      <<"!", "[", "a">>,
      TagSyntax(<<"1", ".", " ", "a">>, <<"u">>),
      <<" ">> \o TagSyntax(<<"a", "_", "a", "f", "t", "e", "r">>, <<"u">>) \o <<"\n">>,
      LinkSyntax(<<"a", " ", "b", "e", "f", "o", "r", "e">>, <<"u">>),
      ReadmePage }

InitRun ==
    /\ pc = "progressReading"
    /\ snippet \in RunSnippets
    /\ inBundle \in BOOLEAN
    /\ appFlag \in BOOLEAN
    /\ clipboard = <<>>
    /\ formatted = <<>>
    /\ records = <<>>
    /\ grouped = [standaloneImages |-> <<>>, pairedGroups |-> EmptyMap]
    /\ table = <<>>
    /\ events = <<>>
    /\ exitCode = <<>>
    /\ run = Null
    /\ regrouped = Null
    /\ titleShape = Null /\ typed = Null /\ title = Null
    /\ categoryArg = Null /\ categoryTitle = Null
    /\ FnUnused
    /\ DocUnused
    /\ AgreeUnused

\* await showProgress("Reading clipboard content...")
ProgressReading ==
    /\ pc = "progressReading"
    /\ \E ok \in OsascriptOutcomes : Emit("showProgress", ok, <<>>)
    /\ pc' = "readClipboard"
    /\ UNCHANGED <<clipboard, formatted, records, grouped, table, exitCode, runFixed>>

\* const clipboardContent = await readClipboard(), and the dispatch
ReadClipboard ==
    /\ pc = "readClipboard"
    /\ \E ok \in PbOutcomes :
           /\ Emit("readClipboard", ok, <<>>)
           /\ IF ok
              THEN clipboard' = snippet /\ pc' = AfterRead(snippet)
              ELSE clipboard' = clipboard /\ pc' = "dlgError"
    /\ UNCHANGED <<formatted, records, grouped, table, exitCode, runFixed>>

\* await showProgress("Parsing PR title..."); parsePRTitle(clipboardContent)
ProgressTitle ==
    /\ pc = "progressTitle"
    /\ \E ok \in OsascriptOutcomes : Emit("showProgress", ok, CoreCall("parsePRTitle"))
    /\ formatted' = parsePRTitle(clipboard)
    /\ pc' = IF formatted' = <<>> THEN "dlgParseError" ELSE "progressWriteTitle"
    /\ UNCHANGED <<clipboard, records, grouped, table, exitCode, runFixed>>

\* await showProgress("Parsing images..."); parseImagesFromClipboard(clipboardContent)
ProgressImages ==
    /\ pc = "progressImages"
    /\ \E ok \in OsascriptOutcomes :
           Emit("showProgress", ok, CoreCall("parseImagesFromClipboard"))
    /\ records' = parseImagesFromClipboard(clipboard)
    /\ pc' = IF Len(records') = 0 THEN "dlgNoImages" ELSE "progressGrouping"
    /\ UNCHANGED <<clipboard, formatted, grouped, table, exitCode, runFixed>>

\* await showProgress(`Found ${images.length} images, ...`); groupImagesByCategory(images)
ProgressGrouping ==
    /\ pc = "progressGrouping"
    /\ \E ok \in OsascriptOutcomes :
           Emit("showProgress", ok, CoreCall("groupImagesByCategory"))
    /\ grouped' = groupImagesByCategory(records)
    /\ pc' = "progressTable"
    /\ UNCHANGED <<clipboard, formatted, records, table, exitCode, runFixed>>

\* await showProgress("Generating table..."); generateTable(...)
ProgressTable ==
    /\ pc = "progressTable"
    /\ \E ok \in OsascriptOutcomes : Emit("showProgress", ok, CoreCall("generateTable"))
    /\ table' = generateTable(grouped.standaloneImages, grouped.pairedGroups)
    /\ pc' = "progressWriteTable"
    /\ UNCHANGED <<clipboard, formatted, records, grouped, exitCode, runFixed>>

\* await showProgress("Writing formatted title to clipboard...") /
\* await showProgress("Writing result to clipboard...")
ProgressWriting ==
    /\ pc \in {"progressWriteTitle", "progressWriteTable"}
    /\ \E ok \in OsascriptOutcomes : Emit("showProgress", ok, <<>>)
    /\ pc' = IF pc = "progressWriteTitle" THEN "writeTitle" ELSE "writeTable"
    /\ UNCHANGED <<clipboard, formatted, records, grouped, table, exitCode, runFixed>>

\* await writeClipboard(formattedTitle) / await writeClipboard(tableHtml)
WriteClipboard ==
    /\ pc \in {"writeTitle", "writeTable"}
    /\ \E ok \in PbOutcomes :
           /\ Emit("writeClipboard", ok, <<>>)
           /\ pc' = IF ok THEN "dlgSuccess" ELSE "dlgError"
    /\ UNCHANGED <<clipboard, formatted, records, grouped, table, exitCode, runFixed>>

\* await showDialog(...): the notices, "Success", and "Error" in the catch block
ShowDialog ==
    /\ pc \in {"dlgNoContent", "dlgParseError", "dlgNoImages", "dlgSuccess", "dlgError"}
    /\ \E ok \in OsascriptOutcomes : Emit("showDialog", ok, <<>>)
    /\ pc' = AfterDialog(pc, isRunningFromApp(inBundle, appFlag))
    /\ UNCHANGED <<clipboard, formatted, records, grouped, table, exitCode, runFixed>>

\* await pasteResult()
PasteResult ==
    /\ pc = "pasteResult"
    /\ \E ok \in OsascriptOutcomes : Emit("pasteResult", ok, <<>>)
    /\ pc' = "exit0"
    /\ UNCHANGED <<clipboard, formatted, records, grouped, table, exitCode, runFixed>>

\* Deno.exit(0) / Deno.exit(1)
DenoExit ==
    /\ pc \in {"exit0", "exit1"}
    /\ exitCode' = <<IF pc = "exit0" THEN 0 ELSE 1>>
    /\ Emit("Deno.exit", TRUE, <<>>)
    /\ pc' = "exited"
    /\ UNCHANGED <<clipboard, formatted, records, grouped, table, runFixed>>

NextRun ==
    \/ ProgressReading
    \/ ReadClipboard
    \/ ProgressTitle
    \/ ProgressImages
    \/ ProgressGrouping
    \/ ProgressTable
    \/ ProgressWriting
    \/ WriteClipboard
    \/ ShowDialog
    \/ PasteResult
    \/ DenoExit

SpecRun == InitRun /\ [][NextRun]_vars

\* Deno.exit follows the awaited call before it in the same turn of the code
SpecRunToExit == InitRun /\ [][NextRun]_vars /\ WF_vars(DenoExit)

(***************************************************************************)
(* Properties of a run of convertClipboard                                 *)
(***************************************************************************)
CoreOps ==
    {"parsePRTitle", "parseImagesFromClipboard", "groupImagesByCategory",
     "generateTable"}

Called(op) == \E i \in 1..Len(events) : events[i].op = op

CallsOf(op) == { i \in 1..Len(events) : events[i].op = op }

IsDialogAt(e, at) == e.op = "showDialog" /\ e.at = at

Finished == pc \in {"returned", "exited"}

\* the call i failed, and the run did what a fault asks for: nothing of the
\* pipeline is called after it, the run does not end normally, and it ends
\* with the "Error" dialog and the exit status 1
AbortsAfter(i) ==
    /\ \A j \in (i + 1)..Len(events) :
           events[j].op \notin CoreOps \cup {"readClipboard", "writeClipboard"}
    /\ pc # "returned"
    /\ exitCode # <<0>>
    /\ pc = "exited" =>
           /\ exitCode = <<1>>
           /\ \E j \in (i + 1)..Len(events) : IsDialogAt(events[j], "dlgError")

\* C26: every failed call (clipboard read, clipboard write, shell tool) aborts
\* the run: error dialog, non-zero exit status, and nothing of the pipeline is
\* executed after it.
C26_AnyFaultAborts ==
    \A i \in 1..Len(events) : ~events[i].ok => AbortsAfter(i)

\* the failures of pbpaste and pbcopy do abort the run
C26_ClipboardFaultAborts ==
    \A i \in 1..Len(events) :
        (~events[i].ok /\ events[i].op \in {"readClipboard", "writeClipboard"})
            => AbortsAfter(i)

\* the clipboard was read and is empty or whitespace-only; or the extraction
\* was made and gave no image; or the title was parsed and came out empty
EmptyResultAt ==
    IF \E i \in 1..Len(events) : events[i].op = "readClipboard" /\ events[i].ok
    THEN IF Trim(clipboard) = <<>> THEN "dlgNoContent"
         ELSE IF Called("parseImagesFromClipboard") /\ Len(records) = 0
              THEN "dlgNoImages"
         ELSE IF Called("parsePRTitle") /\ formatted = <<>> THEN "dlgParseError"
         ELSE "none"
    ELSE "none"

\* C27: an empty result is handled: the run goes to the notice of its case
\* and returns after it; the clipboard is never written, nothing is pasted,
\* the catch block is not entered and Deno.exit is not called.
C27_EmptyHandled ==
    EmptyResultAt # "none" =>
        /\ pc \in {EmptyResultAt, "returned"}
        /\ ~Called("writeClipboard")
        /\ ~Called("pasteResult")
        /\ ~Called("Deno.exit")
        /\ exitCode = <<>>
        /\ pc = "returned" => IsDialogAt(events[Len(events)], EmptyResultAt)

\* an app run on "<img>": no image, the notice, and the return
C27_Witness ==
    /\ pc = "returned"
    /\ inBundle
    /\ snippet = <<"<", "i", "m", "g", ">">>
    /\ EmptyResultAt = "dlgNoImages"
    /\ Len(events) = 5

\* the order of the calls made so far
EventOrder ==
    /\ Cardinality(CallsOf("readClipboard")) <= 1
    /\ Finished => Cardinality(CallsOf("readClipboard")) = 1
    /\ \A i \in 1..Len(events) :
           events[i].op \in CoreOps =>
               \E j \in 1..(i - 1) : events[j].op = "readClipboard" /\ events[j].ok
    /\ Cardinality(CallsOf("writeClipboard")) <= 1
    /\ \A i \in CallsOf("writeClipboard") :
           /\ \E j \in 1..(i - 1) : events[j].op \in CoreOps
           /\ IF events[i].at = "writeTitle"
              THEN formatted # <<>>
              ELSE Len(records) > 0 /\ table # <<>>
    /\ \A i \in 1..Len(events) :
           IsDialogAt(events[i], "dlgSuccess") =>
               \E j \in 1..(i - 1) : events[j].op = "writeClipboard" /\ events[j].ok
    /\ \A i \in CallsOf("pasteResult") :
           /\ inBundle \/ appFlag
           /\ i > 1 /\ IsDialogAt(events[i - 1], "dlgSuccess")
           /\ i < Len(events) =>
                  /\ i + 1 = Len(events)
                  /\ events[i + 1].op = "Deno.exit"
                  /\ exitCode = <<0>>
    /\ (Finished /\ Called("pasteResult")) => exitCode = <<0>>

\* C30: the clipboard is read once, before any parsing; it is written at most
\* once, after a parse with a non-empty result; "Success" is shown only after
\* a write that succeeded; the paste is sent only in app mode, right after
\* "Success", and the exit with status 0 follows it.
C30_EventOrder ==
    /\ []EventOrder
    /\ Called("pasteResult") ~> (exitCode = <<0>>)

\* an app run (--app-mode) on the README's page, to its exit
C30_Witness ==
    /\ pc = "exited"
    /\ appFlag /\ ~inBundle
    /\ snippet = ReadmePage
    /\ Called("pasteResult")
    /\ exitCode = <<0>>
    /\ Len(events) = 13

====
